---- MODULE Spec2Model ----
(***************************************************************************)
(* A model of the crop-annotate editor: CropAnnotate (src/src/editor.js),  *)
(* CanvasManager (src/src/canvas.js) and ToolManager (src/src/tools.js).   *)
(*                                                                         *)
(* Object references.  state.selectedObject and the object an inline text  *)
(* edit works on are JavaScript references.  The live list is modelled as  *)
(* a sequence of records; a reference is 0 (null), an index into the live  *)
(* list, or Dangling: a reference to an object that is no longer in the    *)
(* list (the list was replaced by [] or by a JSON copy).  Nothing in the   *)
(* program reads a dangling object back into the list, so its fields are   *)
(* not kept.                                                               *)
(*                                                                         *)
(* Images.  An image source (URL or data URL) is a record [id, w, h]: the  *)
(* source determines the decoded pixels and so the natural size.  The live *)
(* image is NoImage or the source it was decoded from.                     *)
(*                                                                         *)
(* Text is a sequence of characters, so that trim() is computed.           *)
(***************************************************************************)
EXTENDS Integers, Sequences, FiniteSets, TLC

\* ------------------------------------------------------------------ bounds
MaxHist == 3        \* history entries kept before commits are disabled
MaxObjs == 2        \* objects in the live list
EditMaxHist == 2    \* the same two bounds where every editing operation runs
EditMaxObjs == 1
MaxPending == 2     \* image decodes in flight
MaxGen == 2         \* data URLs produced by crop / flip / rotate
MaxOverlays == 1    \* text-input overlays open at once
MaxPoints == 2      \* points of a freehand stroke
MaxCalls == 3       \* invocations of onZoomChange that are counted
CoordLimit == 24    \* |coordinate| reached by dragging an object

\* --------------------------------------------------------- program constants
DefaultCanvasW == 300
DefaultCanvasH == 150
ContainerW == 800
ContainerH == 600
ZoomStepDen == 4        \* zoomIn / zoomOut move the level by 1 / 4
WheelStepDen == 10      \* a wheel notch moves it by 1 / 10
HitPadding == 10
MinCrop == 10
MinExtent == 2
OptFontSize == 24
OptStrokeWidth == 3
CharWidth == 10

\* CanvasManager.getMousePos: a pointer position is a fraction of a pixel,
\* (clientX - rect.left) * canvas.width / rect.width.  Coordinates, extents
\* and stroke points are counted in units of 1 / SubPixel pixel; canvas and
\* image dimensions are whole pixels.
SubPixel == 2
Units(px) == px * SubPixel
\* the canvas.width / canvas.height setter: the whole pixels of a length >= 0
WholePixels(u) == u \div SubPixel
\* Math.round of a coordinate: the nearest pixel, halves upwards
Round(u) == (2 * u + SubPixel) \div (2 * SubPixel)

\* ------------------------------------------------------------- input domains
DownPositions == {[x |-> 0, y |-> 0]}
MovePositions == {[x |-> Units(12), y |-> Units(12)]}
Colors == {"red", "blue"}
DefaultColor == "red"
Tools == {"select", "crop", "pencil", "arrow", "rect", "circle", "text", "highlight"}
ToolsUsed == {"select", "rect", "text", "crop"}
Sources == {[id |-> 1, w |-> 20, h |-> 12]}
\* an image URL on another origin, served with CORS headers
RemoteSources == {[id |-> 7, w |-> 20, h |-> 12]}
TypedTexts == {<<>>, <<"a">>, <<" ">>}
Languages == {"es"}
TranslationMaps == {[id \in {<<0, 0, 0>>} |-> <<"T">>]}
Directions == {"horizontal", "vertical"}
Rotations == {"left", "right"}

NoImage == [id |-> 0, w |-> 0, h |-> 0]
NoObject == [type |-> "none"]
NoPos == [x |-> 0, y |-> 0]
NoOffset == [x |-> 0, y |-> 0, points |-> <<>>]
NoId == <<>>
Dangling == -1

\* ------------------------------------------------------------------ helpers
Abs(n) == IF n < 0 THEN -n ELSE n
Min2(a, b) == IF a < b THEN a ELSE b
Max2(a, b) == IF a > b THEN a ELSE b

\* String.prototype.trim on a character sequence
RECURSIVE TrimLeft(_)
TrimLeft(s) == IF s # <<>> /\ Head(s) = " " THEN TrimLeft(Tail(s)) ELSE s
RECURSIVE TrimRight(_)
TrimRight(s) ==
    IF s # <<>> /\ s[Len(s)] = " " THEN TrimRight(SubSeq(s, 1, Len(s) - 1)) ELSE s
\* the value as it is, not trimmed
NoTrim(s) == s
Trim(s) == TrimRight(TrimLeft(s))

\* JSON.parse(JSON.stringify(objects)): a new array of new objects carrying
\* every own data property (all fields are finite numbers, strings or arrays)
JSONObject(o) ==
    [type |-> o.type, x |-> o.x, y |-> o.y, w |-> o.w, h |-> o.h,
     color |-> o.color, width |-> o.width, points |-> o.points,
     text |-> o.text, fontSize |-> o.fontSize, textId |-> o.textId]
DeepCopy(objs) == [i \in 1..Len(objs) |-> JSONObject(objs[i])]

\* a reference after the list it pointed into has been replaced
Detach(ref) == IF ref > 0 THEN Dangling ELSE ref
\* a reference after filter() removed the element at index k
AfterRemove(ref, k) ==
    IF ref = k THEN Dangling ELSE IF ref > k THEN ref - 1 ELSE ref
\* filter() dropping the last element whatever k is
RemoveLast(s, k) == SubSeq(s, 1, Len(s) - 1)
RemoveAt(s, k) == [i \in 1..(Len(s) - 1) |-> IF i < k THEN s[i] ELSE s[i + 1]]

\* ----------------------------------------------------- geometry (tools.js)
\* CanvasManager.getPencilBounds: min / max over the points
RECURSIVE MinOf(_, _)
MinOf(pts, f) ==
    IF Len(pts) = 1 THEN pts[1][f] ELSE Min2(pts[1][f], MinOf(Tail(pts), f))
RECURSIVE MaxOf(_, _)
MaxOf(pts, f) ==
    IF Len(pts) = 1 THEN pts[1][f] ELSE Max2(pts[1][f], MaxOf(Tail(pts), f))
getPencilBounds(obj) ==
    [x |-> MinOf(obj.points, "x"), y |-> MinOf(obj.points, "y"),
     w |-> MaxOf(obj.points, "x") - MinOf(obj.points, "x"),
     h |-> MaxOf(obj.points, "y") - MinOf(obj.points, "y")]

\* text.split('\n'): the lengths of the lines
RECURSIVE LineLengths(_, _)
LineLengths(s, cur) ==
    IF s = <<>> THEN <<cur>>
    ELSE IF Head(s) = "\n" THEN <<cur>> \o LineLengths(Tail(s), 0)
    ELSE LineLengths(Tail(s), cur + 1)
RECURSIVE MaxNat(_)
MaxNat(ns) == IF ns = <<>> THEN 0 ELSE Max2(Head(ns), MaxNat(Tail(ns)))

\* CanvasManager.getTextBounds.  measureText is the host's font metric: every
\* character is CharWidth wide.  height5 is five times the height, the line
\* height being fontSize * 1.2 = fontSize * 6 / 5.
getTextBounds(obj) ==
    LET lens == LineLengths(obj.text, 0)
    IN  [x |-> obj.x, y |-> obj.y - Units(obj.fontSize),
         width |-> Units(MaxNat(lens) * CharWidth),
         height5 |-> Units(Len(lens) * obj.fontSize * 6)]

\* the square of the sum of the two offsets in place of the sum of their squares
Dist2Summed(a, b) == (Abs(a.x - b.x) + Abs(a.y - b.y)) * (Abs(a.x - b.x) + Abs(a.y - b.y))
\* Math.hypot(a.x - b.x, a.y - b.y) squared
Dist2(a, b) == (a.x - b.x) * (a.x - b.x) + (a.y - b.y) * (a.y - b.y)

\* ToolManager.distToSegment(p, v, w) < limit, on squared distances: with
\* t = dot / l2 clamped to [0, 1] the squared distance is |p-v|^2 for t = 0,
\* |p-w|^2 for t = 1 and |p-v|^2 - dot^2 / l2 in between.
distToSegmentBelow(p, v, w, limit) ==
    LET l2 == Dist2(v, w)
        dot == (p.x - v.x) * (w.x - v.x) + (p.y - v.y) * (w.y - v.y)
    IN  IF l2 = 0 THEN Dist2(p, v) < limit * limit
        ELSE IF dot <= 0 THEN Dist2(p, v) < limit * limit
        ELSE IF dot >= l2 THEN Dist2(p, w) < limit * limit
        ELSE Dist2(p, v) * l2 - dot * dot < limit * limit * l2

\* ToolManager.isPointInObject
isPointInObject(pos, obj) ==
    LET padding == Units(HitPadding)
        x == IF obj.w < 0 THEN obj.x + obj.w ELSE obj.x
        y == IF obj.h < 0 THEN obj.y + obj.h ELSE obj.y
        w == Abs(obj.w)
        h == Abs(obj.h)
    IN  IF obj.type = "pencil"
        THEN \E i \in 1..Len(obj.points) :
                 Dist2(obj.points[i], pos) < padding * padding
        ELSE IF obj.type = "text"
        THEN LET bounds == getTextBounds(obj)
             IN  /\ pos.x >= bounds.x - padding
                 /\ pos.x <= bounds.x + bounds.width + padding
                 /\ pos.y >= bounds.y - padding
                 /\ 5 * pos.y <= 5 * (bounds.y + padding) + bounds.height5
        ELSE IF obj.type = "arrow"
        THEN distToSegmentBelow(pos, [x |-> obj.x, y |-> obj.y],
                                [x |-> obj.x + obj.w, y |-> obj.y + obj.h], padding)
        ELSE /\ pos.x >= x - padding /\ pos.x <= x + w + padding
             /\ pos.y >= y - padding /\ pos.y <= y + h + padding

\* findObjectAt falling back on the newest object where none contains pos
findObjectAtOrLast(objs, pos) ==
    LET hits == {i \in 1..Len(objs) : isPointInObject(pos, objs[i])}
    IN  IF hits = {} THEN Len(objs) ELSE CHOOSE i \in hits : \A j \in hits : j <= i
\* findObjectAt without the reverse(): the first object that contains pos
findObjectAtFirst(objs, pos) ==
    LET hits == {i \in 1..Len(objs) : isPointInObject(pos, objs[i])}
    IN  IF hits = {} THEN 0 ELSE CHOOSE i \in hits : \A j \in hits : i <= j
\* ToolManager.findObjectAt: the last object of the list that contains pos
\* (0 for null)
findObjectAt(objs, pos) ==
    LET hits == {i \in 1..Len(objs) : isPointInObject(pos, objs[i])}
    IN  IF hits = {} THEN 0 ELSE CHOOSE i \in hits : \A j \in hits : j <= i

\* ToolManager.isValidObject
isValidObject(obj) ==
    IF obj.type = "pencil" THEN Len(obj.points) > 1
    ELSE IF obj.type = "text" THEN Len(obj.text) > 0
    ELSE Abs(obj.w) > Units(MinExtent) \/ Abs(obj.h) > Units(MinExtent)

\* ------------------------------------------------------- zoom (canvas.js)
\* A zoom level is the exact fraction n / d in lowest terms, d > 0.
RECURSIVE Gcd(_, _)
Gcd(a, b) == IF b = 0 THEN a ELSE Gcd(b, a % b)
Level(n, d) == LET g == Gcd(Abs(n), d) IN [n |-> n \div g, d |-> d \div g]
Below(a, b) == a.n * b.d < b.n * a.d
AtMost(a, b) == a.n * b.d <= b.n * a.d
Plus(a, b) == Level(a.n * b.d + b.n * a.d, a.d * b.d)
Minus(a, b) == Level(a.n * b.d - b.n * a.d, a.d * b.d)
MinLevel(a, b) == IF Below(b, a) THEN b ELSE a
MaxLevel(a, b) == IF Below(a, b) THEN b ELSE a

DefaultZoom == Level(1, 1)
MinZoom == Level(1, 10)
MaxZoom == Level(5, 1)
NoZoom == Level(0, 1)

\* newZoom of setZoom without the lower limit
ClampZoomAbove(level) == MinLevel(MaxZoom, level)
\* newZoom of CanvasManager.setZoom
ClampZoom(level) == MaxLevel(MinZoom, MinLevel(MaxZoom, level))

\* the levels setZoom is called with
ZoomInputs == {Level(1, 1000), Level(1, 10), Level(1, 1), Level(7, 4), Level(5, 1),
               Level(10, 1)}

\* ------------------------------------------------------------------- state
VARIABLES
    image,            \* state.image: NoImage or the source it was decoded from
    objects,          \* state.objects
    history,          \* state.history (history[1] is index 0)
    historyIndex,     \* state.historyIndex (-1 while the history is empty)
    currentTool,      \* state.currentTool
    currentColor,     \* state.currentColor
    activeObject,     \* state.activeObject (NoObject for null)
    isDrawing,        \* state.isDrawing
    selectedObject,   \* state.selectedObject: 0, an index of objects, or Dangling
    isEditingText,    \* state.isEditingText
    cropAspectRatio,  \* state.cropAspectRatio: NoRatio or [width, height]
    startPos,         \* toolManager.startPos
    dragOffset,       \* toolManager.dragOffset
    isDragging,       \* toolManager.isDragging
    canvasW,          \* canvas.width
    canvasH,          \* canvas.height
    zoomLevel,        \* canvasManager.zoomLevel
    onZoomChange,     \* editor.onZoomChange: how often it was called, and with what
    display,          \* canvas.style.width / height, in CSS pixels
    container,        \* clientWidth / clientHeight of editor.container
    pending,          \* the Image objects whose onload / onerror has not fired
    overlays,         \* the text-input overlays in the document
    genCount,         \* data URLs produced so far by toDataURL in crop / flip / rotate
    taint,            \* whether the live image, and the canvas bitmap, are not origin-clean
    translations,     \* editor.translations: language code -> (text id -> string)
    ev,               \* what the last step was and what it signalled
    watch,            \* the step names and flags ev records
    limits,           \* the bounds on the object list and the history in force
    run               \* observer of a run of steps

editorVars == <<image, objects, history, historyIndex, selectedObject, canvasW, canvasH>>
toolVars == <<currentTool, currentColor, cropAspectRatio, translations>>
gestureVars == <<activeObject, isDrawing, isEditingText, startPos, dragOffset, isDragging>>
vars == <<image, objects, history, historyIndex, currentTool, currentColor,
          activeObject, isDrawing, selectedObject, isEditingText, cropAspectRatio,
          startPos, dragOffset, isDragging, canvasW, canvasH, zoomLevel,
          onZoomChange, display, container, pending, overlays, genCount, taint, translations, ev, watch, limits, run>>

NoRatio == [width |-> 0, height |-> 0]
\* The canvas bitmap stops being origin-clean when an image that was fetched
\* without CORS from another origin is drawn on it; toDataURL then throws a
\* SecurityError.  Setting canvas.width or canvas.height makes a new, clean
\* bitmap.
Clean == [image |-> FALSE, canvas |-> FALSE]
\* an image decoded by restoreState, whose Image has no crossOrigin
\* attribute, is origin-clean unless its source is on another origin
Fetched(src) == [image |-> src \in RemoteSources, canvas |-> src \in RemoteSources]
\* the bitmap is made anew and the live image drawn on it
Redrawn == [image |-> taint.image, canvas |-> taint.image]
\* canvas.style.width / height before updateDisplaySize first runs: the
\* element is laid out at its intrinsic size, canvas.width x canvas.height
NoDisplay == [w |-> -1, h |-> -1]
\* onZoomChange before its first call
NoCalls == [calls |-> 0, level |-> NoZoom]
NoRun == [mode |-> "off", phase |-> "idle", c |-> -1, n |-> 0, u |-> 0,
          quiet |-> FALSE, entry |-> <<>>, objs |-> <<>>]

\* ------------------------------------------------------ history (editor.js)
\* the snapshot object built by saveHistory
Snapshot(objs, img, cw, ch) ==
    [objects |-> DeepCopy(objs), imageSrc |-> img, canvasWidth |-> cw,
     canvasHeight |-> ch]
\* history.slice(0, historyIndex + 1)
HistorySlice(hist, idx) == SubSeq(hist, 1, idx + 1)
\* saveHistory without the slice: the push alone
SavedHistoryNoSlice(hist, idx, snap) == Append(hist, snap)
\* saveHistory: the new history
SavedHistory(hist, idx, snap) == Append(HistorySlice(hist, idx), snap)
\* room for one more entry
CanSave == historyIndex + 1 < limits.hist

\* canUndo true at the first entry as well
canUndoAtFirst == historyIndex >= 0
canUndo == historyIndex > 0
canRedo == historyIndex < Len(history) - 1

\* a text-input overlay: kind "new" (createNewText, at pos) or "edit"
\* (startInlineTextEdit, on the object obj); value is textarea.value and
\* finished the flag of that name in the closure of its handlers
Overlay(kind, pos, obj, originalText, value) ==
    [kind |-> kind, pos |-> pos, obj |-> obj, originalText |-> originalText,
     value |-> value, finished |-> FALSE]
\* the textareas still in the document
Attached(ovs) == SelectSeq(ovs, LAMBDA t : ~t.finished)
\* overlay i leaves the document.  Its handlers stay on the detached
\* textarea: where the specification follows detached textareas ("detached"
\* in watch) the last one is kept, with finished set, until the next
\* textarea is created, and events may still be delivered to it (the blur
\* that removeChild raises on a focused element, a synthetic key event).
Detached(ovs, i) ==
    IF "detached" \in watch THEN [ovs EXCEPT ![i].finished = TRUE]
    ELSE RemoveAt(ovs, i)

\* --------------------------------------------------------------- observers
\* no pointer gesture, text overlay or image decode in progress
Quiescent ==
    /\ ~isDrawing /\ ~isDragging /\ ~isEditingText
    /\ activeObject = NoObject /\ Attached(overlays) = <<>> /\ pending = <<>>

\* the live state is what the history entry at the cursor records
LiveIsEntry ==
    /\ historyIndex >= 0
    /\ LET e == history[historyIndex + 1]
       IN  /\ objects = e.objects
           /\ image = e.imageSrc
           /\ canvasW = e.canvasWidth
           /\ canvasH = e.canvasHeight

\* ev records the last step: its name when the specification watches it
\* ("other" otherwise), whether it called saveHistory, whether it raised an
\* error-class signal (console.error, a rejected promise, an exception that
\* leaves the handler), and, for a watched
\* or committing step, the cursor and the history length it started from;
\* arg is what the step was called with, where that is watched: the deltas of
\* the rect a pointer release hands to crop, the level given to setZoom, the
\* language code given to an export (what an export returns follows it), the
\* raw deltas of a pointer move, the position of a pointer-down, the index
\* of the textarea an Enter, blur or Escape reaches
Event(op, committed, signal, arg) ==
    LET recorded == /\ "before" \in watch
                    /\ op \in watch \/ (committed /\ "committed" \in watch)
    IN  [op |-> IF op \in watch THEN op ELSE "other",
         committed |-> committed /\ "committed" \in watch,
         signal |-> signal /\ "signal" \in watch,
         at |-> IF recorded THEN historyIndex ELSE -1,
         had |-> IF recorded THEN Len(history) ELSE 0,
         arg |-> IF "arg" \in watch /\ op \in watch THEN arg ELSE <<>>]

\* The observers follow one run of steps at a time.  A step has a kind:
\*   "commit"   an object commit (add, move, delete, colour change, text edit)
\*   "undo"     an undo() call        "redo"   a redo() call
\*   "env"      a restore's decode completes
\*   "envfail"  a restore's decode fails
\*   "break"    another step that moves the cursor or changes the history
\*   "other"    any other step
\* mode "commits": from a quiescent state (the base of the run), commits and
\* the gestures that make them, followed by as many consecutive undo() calls.
\* c and objs are the cursor and the live list of the base; quiet says that
\* they are recorded.
CommitsBase ==
    [NoRun EXCEPT !.mode = "commits", !.quiet = TRUE, !.c = historyIndex,
                  !.objs = objects]
CommitsStep(kind) ==
    IF run.phase = "counting" /\ kind = "commit" THEN [run EXCEPT !.n = @ + 1]
    ELSE IF run.phase = "counting" /\ kind = "other" THEN run
    ELSE IF run.phase \in {"counting", "undoing"} /\ kind = "undo"
    THEN [run EXCEPT !.u = @ + 1,
                     !.phase = IF run.u + 1 = run.n THEN "done" ELSE "undoing"]
    ELSE IF run.phase = "idle" /\ run.quiet /\ kind = "commit"
    THEN [run EXCEPT !.phase = "counting", !.n = 1]
    ELSE IF run.phase = "done" /\ Quiescent /\ kind = "commit"
    THEN [CommitsBase EXCEPT !.phase = "counting", !.n = 1]
    ELSE IF Quiescent' THEN CommitsBase'
    ELSE IF run.phase = "idle" /\ run.quiet /\ kind = "other" THEN run
    ELSE [NoRun EXCEPT !.mode = "commits"]

\* mode "pair": undo() from a quiescent state with canUndo, its decode
\* completing, then redo(), its decode completing; or the decode of that
\* undo() failing
PairStep(kind) ==
    IF kind = "undo" /\ Quiescent /\ canUndo
    THEN [NoRun EXCEPT !.mode = "pair", !.phase = "undone", !.quiet = LiveIsEntry,
           !.c = historyIndex, !.objs = objects,
           !.entry = <<[imageSrc |-> image, canvasWidth |-> canvasW,
                        canvasHeight |-> canvasH]>>]
    ELSE IF run.phase = "undone" /\ kind = "env" THEN run
    ELSE IF run.phase = "undone" /\ kind = "envfail" THEN [run EXCEPT !.phase = "failed"]
    ELSE IF run.phase = "undone" /\ kind = "redo" /\ pending = <<>>
    THEN [run EXCEPT !.phase = IF history[historyIndex + 2].imageSrc = NoImage
                               THEN "done" ELSE "redone"]
    ELSE IF run.phase = "redone" /\ kind = "env" THEN [run EXCEPT !.phase = "done"]
    ELSE [NoRun EXCEPT !.mode = "pair"]

\* mode "restores": undo() and redo() calls, the first a restore from a
\* quiescent state, and the completions of the decodes they started
RestoresStep(kind) ==
    IF run.phase = "idle"
    THEN IF Quiescent /\ ((kind = "undo" /\ canUndo) \/ (kind = "redo" /\ canRedo))
         THEN [NoRun EXCEPT !.mode = "restores", !.phase = "restoring"]
         ELSE run
    ELSE IF kind \in {"undo", "redo", "env"} THEN run
    ELSE [NoRun EXCEPT !.mode = "restores"]

Observe(op, committed, signal, kind, arg) ==
    /\ ev' = Event(op, committed, signal, arg)
    /\ run' = IF run.mode = "commits" THEN CommitsStep(kind)
              ELSE IF run.mode = "pair" THEN PairStep(kind)
              ELSE IF run.mode = "restores" THEN RestoresStep(kind)
              ELSE run
    /\ UNCHANGED <<watch, limits, container>>
Obs(op, committed, signal, kind) == Observe(op, committed, signal, kind, <<>>)

\* ------------------------------------------------------------ initial state
\* the constructor of CropAnnotate, CanvasManager and ToolManager; a canvas
\* element starts 300 x 150
InitEditor ==
    /\ image = NoImage
    /\ objects = <<>>
    /\ history = <<>>
    /\ historyIndex = -1
    /\ currentTool = "select"
    /\ currentColor = DefaultColor
    /\ activeObject = NoObject
    /\ isDrawing = FALSE
    /\ selectedObject = 0
    /\ isEditingText = FALSE
    /\ cropAspectRatio = NoRatio
    /\ startPos = NoPos
    /\ dragOffset = NoOffset
    /\ isDragging = FALSE
    /\ canvasW = DefaultCanvasW
    /\ canvasH = DefaultCanvasH
    /\ zoomLevel = DefaultZoom
    /\ onZoomChange = NoCalls
    /\ display = NoDisplay
    /\ pending = <<>>
    /\ overlays = <<>>
    /\ genCount = 0
    /\ taint = Clean
    /\ translations = [l \in {} |-> <<>>]
    /\ ev = [op |-> "other", committed |-> FALSE, signal |-> FALSE, at |-> -1, had |-> 0,
             arg |-> <<>>]

\* a container that has no layout: clientWidth and clientHeight are 0
NoLayout == [w |-> 0, h |-> 0]
InitPage == InitEditor /\ container = NoLayout

Wide == [objs |-> MaxObjs, hist |-> MaxHist]
Narrow == [objs |-> EditMaxObjs, hist |-> EditMaxHist]

\* --------------------------------------------------------- pieces of handlers
\* the object literal of onMouseDown (fields a literal lacks hold 0 / <<>>)
NewActiveObject(tool, pos) ==
    [type |-> tool, x |-> pos.x, y |-> pos.y, w |-> 0, h |-> 0,
     color |-> currentColor, width |-> OptStrokeWidth,
     points |-> IF tool = "pencil" THEN <<[x |-> pos.x, y |-> pos.y]>> ELSE <<>>,
     text |-> <<>>, fontSize |-> 0, textId |-> NoId]
\* the object literal of createNewText's finish
NewTextObject(pos, text) ==
    [type |-> "text", x |-> pos.x, y |-> pos.y, w |-> 0, h |-> 0,
     color |-> currentColor, width |-> 0, points |-> <<>>,
     text |-> text, fontSize |-> OptFontSize, textId |-> NoId]

\* an Image whose src has been set: what its onload will need
Decode(op, src, w, h, zoom) == [op |-> op, src |-> src, w |-> w, h |-> h, zoom |-> zoom]
\* the data URL toDataURL returns for a temporary canvas of w x h
DataURL(w, h) == [id |-> Cardinality(Sources) + genCount + 1, w |-> w, h |-> h]

\* CanvasManager.updateDisplaySize for a canvas of w x h at the level zoom:
\* Math.floor(canvas.width * zoomLevel) by Math.floor(canvas.height *
\* zoomLevel).  The style is followed where the specification watches it.
DisplaySize(w, h, zoom) == [w |-> (w * zoom.n) \div zoom.d, h |-> (h * zoom.n) \div zoom.d]
updateDisplaySize(w, h, zoom) ==
    display' = IF "display" \in watch THEN DisplaySize(w, h, zoom) ELSE display

\* setZoom with the callback outside the test for a change
setZoomAlwaysCalls(level) ==
    LET newZoom == ClampZoom(level)
    IN  /\ zoomLevel' = newZoom
        /\ updateDisplaySize(canvasW', canvasH', newZoom)
        /\ IF "onZoomChange" \in watch
           THEN /\ onZoomChange.calls < MaxCalls
                /\ onZoomChange' = [calls |-> onZoomChange.calls + 1, level |-> newZoom]
           ELSE UNCHANGED onZoomChange

\* CanvasManager.setZoom(level): the level changes, and the callback runs,
\* only when the clamped level differs from the current one.  The calls are
\* counted where the specification watches them.
setZoom(level) ==
    LET newZoom == ClampZoom(level)
    IN  IF newZoom # zoomLevel
        THEN /\ zoomLevel' = newZoom
             /\ updateDisplaySize(canvasW', canvasH', newZoom)
             /\ IF "onZoomChange" \in watch
                THEN /\ onZoomChange.calls < MaxCalls
                     /\ onZoomChange' = [calls |-> onZoomChange.calls + 1,
                                         level |-> newZoom]
                ELSE UNCHANGED onZoomChange
        ELSE UNCHANGED <<zoomLevel, onZoomChange, display>>

\* fitZoom without the third argument of Math.min
FitZoomNoCap(w, h) ==
    LET containerWidth == IF container.w # 0 THEN container.w ELSE ContainerW
        containerHeight == IF container.h # 0 THEN container.h ELSE ContainerH
    IN  IF w = 0 \/ h = 0 THEN MaxZoom
        ELSE MinLevel(Level(containerWidth, w), Level(containerHeight, h))

\* fitZoom of CanvasManager.zoomToFit for a canvas of w x h:
\* min(containerWidth / w, containerHeight / h, 1), a quotient by 0 being
\* Infinity
FitZoom(w, h) ==
    LET containerWidth == IF container.w # 0 THEN container.w ELSE ContainerW
        containerHeight == IF container.h # 0 THEN container.h ELSE ContainerH
        byWidth == IF w = 0 THEN DefaultZoom
                   ELSE MinLevel(Level(containerWidth, w), DefaultZoom)
        byHeight == IF h = 0 THEN DefaultZoom
                    ELSE MinLevel(Level(containerHeight, h), DefaultZoom)
    IN  MinLevel(byWidth, byHeight)
zoomToFit(w, h) == setZoom(FitZoom(w, h))

\* the references the overlays hold, after the list they point into is replaced
DetachTargets(ovs) == [i \in 1..Len(ovs) |-> [ovs[i] EXCEPT !.obj = Detach(@)]]

InRange(n) == -Units(CoordLimit) <= n /\ n <= Units(CoordLimit)

\* ------------------------------------------------------------------ actions
\* editor.loadImage(source): the Image is created and its src set
LoadImage(source) ==
    /\ Len(pending) < MaxPending
    /\ pending' = Append(pending, Decode("load", source, 0, 0, NoZoom))
    /\ UNCHANGED <<editorVars, toolVars, gestureVars, zoomLevel, onZoomChange, display, overlays, genCount, taint>>
    /\ Obs("loadImage", FALSE, FALSE, "other")

\* editor.setTool
SetTool(tool) ==
    /\ currentTool' = tool
    /\ selectedObject' = 0
    /\ UNCHANGED <<image, objects, history, historyIndex, canvasW, canvasH,
                   currentColor, cropAspectRatio, translations, gestureVars, zoomLevel, onZoomChange, display,
                   pending, overlays, genCount, taint>>
    /\ Obs("setTool", FALSE, FALSE, "other")

\* editor.setColor
SetColor(color) ==
    /\ currentColor' = color
    /\ UNCHANGED <<image, selectedObject, canvasW, canvasH, currentTool,
                   cropAspectRatio, translations, gestureVars, zoomLevel, onZoomChange, display, pending,
                   overlays, genCount, taint>>
    /\ IF selectedObject # 0
       THEN /\ CanSave
            /\ objects' = IF selectedObject = Dangling THEN objects
                          ELSE [objects EXCEPT ![selectedObject].color = color]
            /\ history' = SavedHistory(history, historyIndex,
                                       Snapshot(objects', image, canvasW, canvasH))
            /\ historyIndex' = historyIndex + 1
            /\ Obs("setColor", TRUE, FALSE, "commit")
       ELSE /\ UNCHANGED <<objects, history, historyIndex>>
            /\ Obs("setColor", FALSE, FALSE, "other")

\* canvasManager.handleKeyDown for Delete / Backspace
KeyDelete ==
    /\ UNCHANGED <<image, canvasW, canvasH, toolVars, gestureVars, zoomLevel, onZoomChange, display,
                   pending, genCount, taint>>
    /\ IF selectedObject # 0 /\ ~isEditingText
       THEN /\ CanSave
            /\ objects' = IF selectedObject = Dangling THEN objects
                          ELSE RemoveAt(objects, selectedObject)
            /\ overlays' = IF selectedObject = Dangling THEN overlays
                           ELSE [i \in 1..Len(overlays) |->
                                   [overlays[i] EXCEPT !.obj = AfterRemove(@, selectedObject)]]
            /\ selectedObject' = 0
            /\ history' = SavedHistory(history, historyIndex,
                                       Snapshot(objects', image, canvasW, canvasH))
            /\ historyIndex' = historyIndex + 1
            /\ Obs("keyDelete", TRUE, FALSE, "commit")
       ELSE /\ UNCHANGED <<objects, overlays, selectedObject, history, historyIndex>>
            /\ Obs("keyDelete", FALSE, FALSE, "other")

\* canvasManager.handleKeyDown for Escape: no branch of it tests that key
KeyEscape ==
    /\ UNCHANGED <<editorVars, toolVars, gestureVars, zoomLevel, onZoomChange, display, pending,
                   overlays, genCount, taint>>
    /\ Obs("keyEscape", FALSE, FALSE, "other")

\* restoreFromHistory with the translations treated as part of what is restored
RestoreResetsTranslations(idx, op) ==
    LET snapshot == history[idx + 1]
    IN  /\ objects' = DeepCopy(snapshot.objects)
        /\ selectedObject' = 0
        /\ overlays' = DetachTargets(overlays)
        /\ IF snapshot.imageSrc # NoImage
           THEN /\ Len(pending) < MaxPending
                /\ pending' = Append(pending,
                       Decode("restore", snapshot.imageSrc, snapshot.canvasWidth,
                              snapshot.canvasHeight, NoZoom))
                /\ UNCHANGED <<canvasW, canvasH, zoomLevel, onZoomChange, display, taint>>
           ELSE /\ canvasW' = snapshot.canvasWidth
                /\ canvasH' = snapshot.canvasHeight
                /\ zoomToFit(canvasW', canvasH')
                /\ taint' = Redrawn
                /\ UNCHANGED pending
        /\ historyIndex' = idx
        /\ translations' = [l \in {} |-> <<>>]
        /\ UNCHANGED <<image, history, currentTool, currentColor, cropAspectRatio,
                       gestureVars, genCount>>
        /\ Obs(op, FALSE, FALSE, op)

\* restoreFromHistory followed by canvasManager.restoreState, for the entry
\* at index idx
Restore(idx, op) ==
    LET snapshot == history[idx + 1]
    IN  /\ objects' = DeepCopy(snapshot.objects)
        /\ selectedObject' = 0
        /\ overlays' = DetachTargets(overlays)
        /\ IF snapshot.imageSrc # NoImage
           THEN /\ Len(pending) < MaxPending
                /\ pending' = Append(pending,
                       Decode("restore", snapshot.imageSrc, snapshot.canvasWidth,
                              snapshot.canvasHeight, NoZoom))
                /\ UNCHANGED <<canvasW, canvasH, zoomLevel, onZoomChange, display, taint>>
           ELSE /\ canvasW' = snapshot.canvasWidth
                /\ canvasH' = snapshot.canvasHeight
                /\ zoomToFit(canvasW', canvasH')
                /\ taint' = Redrawn
                /\ UNCHANGED pending
        /\ historyIndex' = idx
        /\ UNCHANGED <<image, history, toolVars, gestureVars, genCount>>
        /\ Obs(op, FALSE, FALSE, op)

\* undo guarded by historyIndex >= 0: at the first entry it restores that entry
UndoRestoresFirst ==
    IF historyIndex >= 0
    THEN Restore(Max2(historyIndex - 1, 0), "undo")
    ELSE /\ UNCHANGED <<editorVars, toolVars, gestureVars, zoomLevel, onZoomChange, display, pending,
                        overlays, genCount, taint>>
         /\ Obs("undo", FALSE, FALSE, "undo")

\* editor.undo
Undo ==
    IF historyIndex > 0
    THEN Restore(historyIndex - 1, "undo")
    ELSE /\ UNCHANGED <<editorVars, toolVars, gestureVars, zoomLevel, onZoomChange, display, pending,
                        overlays, genCount, taint>>
         /\ Obs("undo", FALSE, FALSE, "undo")

\* editor.redo
Redo ==
    IF historyIndex < Len(history) - 1
    THEN Restore(historyIndex + 1, "redo")
    ELSE /\ UNCHANGED <<editorVars, toolVars, gestureVars, zoomLevel, onZoomChange, display, pending,
                        overlays, genCount, taint>>
         /\ Obs("redo", FALSE, FALSE, "redo")

\* editor.canUndo() and editor.canRedo() as calls: what each returns
CanUndo ==
    /\ UNCHANGED <<editorVars, toolVars, gestureVars, zoomLevel, onZoomChange, display, pending,
                   overlays, genCount, taint>>
    /\ Observe("canUndo", FALSE, FALSE, "other", <<canUndo>>)
CanRedo ==
    /\ UNCHANGED <<editorVars, toolVars, gestureVars, zoomLevel, onZoomChange, display, pending,
                   overlays, genCount, taint>>
    /\ Observe("canRedo", FALSE, FALSE, "other", <<canRedo>>)

\* toolManager.onMouseDown(pos, e); detail is e.detail
MouseDown(pos, detail) ==
    IF currentTool = "select"
    THEN LET clickedObj == findObjectAt(objects, pos)
         IN  /\ selectedObject' = clickedObj
             /\ IF clickedObj # 0
                THEN LET o == objects[clickedObj]
                     IN  /\ isDragging' = TRUE
                         /\ dragOffset' =
                              [x |-> pos.x - o.x, y |-> pos.y - o.y,
                               points |-> IF o.type = "pencil"
                                          THEN [i \in 1..Len(o.points) |->
                                                 [x |-> pos.x - o.points[i].x,
                                                  y |-> pos.y - o.points[i].y]]
                                          ELSE <<>>]
                         /\ IF o.type = "text" /\ detail = 2
                            THEN \* startInlineTextEdit(clickedObj)
                                 /\ Len(Attached(overlays)) < MaxOverlays
                                 /\ overlays' = Append(Attached(overlays),
                                        Overlay("edit", NoPos, clickedObj, o.text, o.text))
                                 /\ isEditingText' = TRUE
                                 /\ objects' = [objects EXCEPT ![clickedObj].text = <<>>]
                            ELSE UNCHANGED <<overlays, isEditingText, objects>>
                ELSE UNCHANGED <<isDragging, dragOffset, overlays, isEditingText, objects>>
             /\ UNCHANGED <<image, history, historyIndex, canvasW, canvasH, toolVars,
                            activeObject, isDrawing, startPos, zoomLevel, onZoomChange, display, pending, genCount, taint>>
             /\ Observe("mouseDown", FALSE, FALSE, "other", <<pos.x, pos.y>>)
    ELSE /\ isDrawing' = TRUE
         /\ startPos' = pos
         /\ IF currentTool = "text"
            THEN \* createNewText(pos)
                 /\ Len(Attached(overlays)) < MaxOverlays
                 /\ overlays' = Append(Attached(overlays), Overlay("new", pos, 0, <<>>, <<>>))
                 /\ UNCHANGED activeObject
            ELSE /\ activeObject' = NewActiveObject(currentTool, pos)
                 /\ UNCHANGED overlays
         /\ UNCHANGED <<editorVars, toolVars, isEditingText, dragOffset, isDragging,
                        zoomLevel, onZoomChange, display, pending, genCount, taint>>
         /\ Observe("mouseDown", FALSE, FALSE, "other", <<pos.x, pos.y>>)

\* editor.setCropAspectRatio(ratio): null or 'free' clears the constraint,
\* 'square' and '1:1' give 1:1, any other string is split at ':' and its two
\* parts are parsed, an object is taken when both of its fields are truthy;
\* anything else leaves the ratio as it is
SetCropAspectRatio(ratio) ==
    /\ cropAspectRatio' =
          IF ratio.kind = "free" THEN NoRatio
          ELSE IF ratio.kind = "square" THEN [width |-> 1, height |-> 1]
          ELSE IF ratio.kind = "string" THEN [width |-> ratio.width, height |-> ratio.height]
          ELSE IF ratio.kind = "object" /\ ratio.width # 0 /\ ratio.height # 0
          THEN [width |-> ratio.width, height |-> ratio.height]
          ELSE cropAspectRatio
    /\ UNCHANGED <<editorVars, currentTool, currentColor, translations, gestureVars,
                   zoomLevel, onZoomChange, display, pending, overlays, genCount, taint>>
    /\ Obs("setCropAspectRatio", FALSE, FALSE, "other")

\* the constrained extent always positive
ConstrainCropUnsigned(dx, dy, ratio) ==
    LET absW == Abs(dx)
        absH == Abs(dy)
    IN  IF absW * ratio.height > absH * ratio.width
        THEN [w |-> dx, h |-> (absW * ratio.height) \div ratio.width]
        ELSE [w |-> (absH * ratio.width) \div ratio.height, h |-> dy]
\* the crop rectangle under an aspect-ratio constraint (onMouseMove), in
\* sub-pixel units: absW / targetRatio is absW * height / width, exact where
\* the quotient is a whole number of units
ConstrainCrop(dx, dy, ratio) ==
    LET absW == Abs(dx)
        absH == Abs(dy)
        signW == IF dx < 0 THEN -1 ELSE 1
        signH == IF dy < 0 THEN -1 ELSE 1
    IN  IF absW * ratio.height > absH * ratio.width
        THEN [w |-> dx, h |-> ((absW * ratio.height) \div ratio.width) * signH]
        ELSE [w |-> ((absH * ratio.width) \div ratio.height) * signW, h |-> dy]

\* the selected object after a drag to pos (onMouseMove)
Dragged(o, pos) ==
    IF o.type = "pencil"
    THEN LET moved == [o EXCEPT !.points =
                         [i \in 1..Len(dragOffset.points) |->
                            [x |-> pos.x - dragOffset.points[i].x,
                             y |-> pos.y - dragOffset.points[i].y]]]
             bounds == getPencilBounds(moved)
         IN  [moved EXCEPT !.x = bounds.x, !.y = bounds.y]
    ELSE [o EXCEPT !.x = pos.x - dragOffset.x, !.y = pos.y - dragOffset.y]

\* toolManager.onMouseMove(pos)
MouseMove(pos) ==
    /\ IF currentTool = "select" /\ isDragging /\ selectedObject # 0
       THEN /\ IF selectedObject = Dangling
               THEN UNCHANGED objects
               ELSE /\ objects' = [objects EXCEPT
                                     ![selectedObject] = Dragged(@, pos)]
                    /\ InRange(objects'[selectedObject].x)
                    /\ InRange(objects'[selectedObject].y)
            /\ UNCHANGED activeObject
       ELSE IF ~isDrawing \/ activeObject = NoObject
       THEN UNCHANGED <<objects, activeObject>>
       ELSE /\ IF activeObject.type = "pencil"
               THEN /\ Len(activeObject.points) < MaxPoints
                    /\ activeObject' = [activeObject EXCEPT
                           !.points = Append(@, [x |-> pos.x, y |-> pos.y])]
               ELSE IF activeObject.type = "crop" /\ cropAspectRatio # NoRatio
               THEN LET c == ConstrainCrop(pos.x - startPos.x, pos.y - startPos.y,
                                           cropAspectRatio)
                    IN  activeObject' = [activeObject EXCEPT !.w = c.w, !.h = c.h]
               ELSE activeObject' = [activeObject EXCEPT
                           !.w = pos.x - startPos.x, !.h = pos.y - startPos.y]
            /\ UNCHANGED objects
    /\ UNCHANGED <<image, history, historyIndex, selectedObject, canvasW, canvasH,
                   toolVars, isDrawing, isEditingText, startPos, dragOffset, isDragging,
                   zoomLevel, onZoomChange, display, pending, overlays, genCount, taint>>
    /\ Observe("mouseMove", FALSE, FALSE, "other",
               <<pos.x - startPos.x, pos.y - startPos.y>>)

\* the size floor of crop applied to the two extents together
CropAcceptedEither(rect) ==
    ~(Abs(rect.w) < Units(MinCrop) /\ Abs(rect.h) < Units(MinCrop))
\* canvasManager.crop(rect): TRUE when the rect passes the size floor
CropAccepted(rect) == ~(Abs(rect.w) < Units(MinCrop) \/ Abs(rect.h) < Units(MinCrop))

\* activeObject.type === 'crop' decided by the current tool instead
isCropObjectByTool(obj) == currentTool = "crop"
\* activeObject.type === 'crop' in onMouseUp
isCropObject(obj) == obj.type = "crop"
\* toolManager.onMouseUp(pos)
MouseUp ==
    IF currentTool = "select"
    THEN IF isDragging
         THEN /\ CanSave
              /\ history' = SavedHistory(history, historyIndex,
                                         Snapshot(objects, image, canvasW, canvasH))
              /\ historyIndex' = historyIndex + 1
              /\ isDragging' = FALSE
              /\ UNCHANGED <<image, objects, selectedObject, canvasW, canvasH, toolVars,
                             activeObject, isDrawing, isEditingText, startPos, dragOffset,
                             zoomLevel, onZoomChange, display, pending, overlays, genCount, taint>>
              /\ Obs("mouseUp", TRUE, FALSE, "commit")
         ELSE /\ UNCHANGED <<editorVars, toolVars, gestureVars, zoomLevel, onZoomChange, display, pending,
                             overlays, genCount, taint>>
              /\ Obs("mouseUp", FALSE, FALSE, "other")
    ELSE IF ~isDrawing
    THEN /\ UNCHANGED <<editorVars, toolVars, gestureVars, zoomLevel, onZoomChange, display, pending,
                        overlays, genCount, taint>>
         /\ Obs("mouseUp", FALSE, FALSE, "other")
    ELSE IF /\ activeObject # NoObject
            /\ isCropObject(activeObject)
            /\ CropAccepted(activeObject)
            /\ taint.canvas
    THEN \* crop's tempCanvas.toDataURL() throws: the release is not finished
         /\ UNCHANGED <<editorVars, toolVars, gestureVars, zoomLevel, onZoomChange, display, pending,
                        overlays, genCount, taint>>
         /\ Observe("mouseUp", FALSE, TRUE, "other", <<activeObject.w, activeObject.h>>)
    ELSE /\ isDrawing' = FALSE
         /\ activeObject' = NoObject
         /\ UNCHANGED <<image, selectedObject, canvasW, canvasH, toolVars, isEditingText,
                        startPos, dragOffset, isDragging, zoomLevel, onZoomChange, display, overlays,
                        taint>>
         /\ IF activeObject # NoObject /\ isCropObject(activeObject)
            THEN \* canvasManager.crop(activeObject)
                 /\ IF CropAccepted(activeObject)
                    THEN \* the temporary canvas is nw x nh in whole pixels;
                         \* onload keeps nw and nh themselves
                         LET nw == Abs(activeObject.w)
                             nh == Abs(activeObject.h)
                         IN  /\ Len(pending) < MaxPending
                             /\ genCount < MaxGen
                             /\ pending' = Append(pending,
                                    Decode("crop", DataURL(WholePixels(nw), WholePixels(nh)),
                                           nw, nh, NoZoom))
                             /\ genCount' = genCount + 1
                    ELSE UNCHANGED <<pending, genCount>>
                 /\ UNCHANGED <<objects, history, historyIndex>>
                 /\ Observe("mouseUp", FALSE, FALSE, "other",
                            <<activeObject.w, activeObject.h>>)
            ELSE IF activeObject # NoObject /\ isValidObject(activeObject)
            THEN /\ Len(objects) < limits.objs
                 /\ CanSave
                 /\ objects' = Append(objects, activeObject)
                 /\ history' = SavedHistory(history, historyIndex,
                                            Snapshot(objects', image, canvasW, canvasH))
                 /\ historyIndex' = historyIndex + 1
                 /\ UNCHANGED <<pending, genCount>>
                 /\ Obs("mouseUp", TRUE, FALSE, "commit")
            ELSE /\ UNCHANGED <<objects, history, historyIndex, pending, genCount>>
                 /\ Obs("mouseUp", FALSE, FALSE, "other")

\* canvasManager.flip(direction): the mirrored canvas is encoded and decoded
Flip(direction) ==
    IF taint.canvas
    THEN \* tempCanvas.toDataURL() throws
         /\ UNCHANGED <<editorVars, toolVars, gestureVars, zoomLevel, onZoomChange, display, pending,
                        overlays, genCount, taint>>
         /\ Obs("flip", FALSE, TRUE, "other")
    ELSE /\ Len(pending) < MaxPending
         /\ genCount < MaxGen
         /\ pending' = Append(pending,
                              Decode("flip", DataURL(canvasW, canvasH), 0, 0, NoZoom))
         /\ genCount' = genCount + 1
         /\ UNCHANGED <<editorVars, toolVars, gestureVars, zoomLevel, onZoomChange, display, overlays,
                        taint>>
         /\ Obs("flip", FALSE, FALSE, "other")

\* canvasManager.rotate(direction): the temporary canvas has the swapped size
Rotate(direction) ==
    IF taint.canvas
    THEN \* tempCanvas.toDataURL() throws
         /\ UNCHANGED <<editorVars, toolVars, gestureVars, zoomLevel, onZoomChange, display, pending,
                        overlays, genCount, taint>>
         /\ Obs("rotate", FALSE, TRUE, "other")
    ELSE /\ Len(pending) < MaxPending
         /\ genCount < MaxGen
         /\ pending' = Append(pending,
                Decode("rotate", DataURL(canvasH, canvasW), canvasH, canvasW, zoomLevel))
         /\ genCount' = genCount + 1
         /\ UNCHANGED <<editorVars, toolVars, gestureVars, zoomLevel, onZoomChange, display, overlays,
                        taint>>
         /\ Obs("rotate", FALSE, FALSE, "other")

\* editor.setZoom(level) -> canvasManager.setZoom(level)
SetZoom(level) ==
    /\ UNCHANGED <<editorVars, toolVars, gestureVars, pending, overlays, genCount, taint>>
    /\ setZoom(level)
    /\ Observe("setZoom", FALSE, FALSE, "other", <<level>>)

\* canvasManager.zoomIn / zoomOut
ZoomIn ==
    /\ UNCHANGED <<editorVars, toolVars, gestureVars, pending, overlays, genCount, taint>>
    /\ setZoom(Plus(zoomLevel, Level(1, ZoomStepDen)))
    /\ Obs("zoomIn", FALSE, FALSE, "other")
ZoomOut ==
    /\ UNCHANGED <<editorVars, toolVars, gestureVars, pending, overlays, genCount, taint>>
    /\ setZoom(Minus(zoomLevel, Level(1, ZoomStepDen)))
    /\ Obs("zoomOut", FALSE, FALSE, "other")

\* canvasManager.zoomToFit
ZoomToFit ==
    /\ UNCHANGED <<editorVars, toolVars, gestureVars, pending, overlays, genCount, taint>>
    /\ zoomToFit(canvasW, canvasH)
    /\ Obs("zoomToFit", FALSE, FALSE, "other")

\* canvasManager.resetZoom
ResetZoom ==
    /\ UNCHANGED <<editorVars, toolVars, gestureVars, pending, overlays, genCount, taint>>
    /\ setZoom(DefaultZoom)
    /\ Obs("resetZoom", FALSE, FALSE, "other")

\* canvasManager.handleWheel with ctrl or meta held: deltaY > 0 zooms out
Wheel(deltaY) ==
    /\ UNCHANGED <<editorVars, toolVars, gestureVars, pending, overlays, genCount, taint>>
    /\ setZoom(IF deltaY > 0 THEN Minus(zoomLevel, Level(1, WheelStepDen))
                             ELSE Plus(zoomLevel, Level(1, WheelStepDen)))
    /\ Obs("wheel", FALSE, FALSE, "other")

\* img.onload of loadImage without the reset of history and historyIndex
LoadDoneKeepsHistory(i) ==
    LET d == pending[i]
    IN  /\ d.op = "load"
        /\ CanSave
        /\ pending' = RemoveAt(pending, i)
        /\ image' = d.src
        /\ objects' = <<>>
        /\ selectedObject' = Detach(selectedObject)
        /\ overlays' = DetachTargets(overlays)
        /\ canvasW' = d.src.w
        /\ canvasH' = d.src.h
        /\ zoomToFit(canvasW', canvasH')
        /\ history' = SavedHistory(history, historyIndex,
                                   Snapshot(objects', image', canvasW', canvasH'))
        /\ historyIndex' = historyIndex + 1
        /\ taint' = Clean
        /\ UNCHANGED <<toolVars, gestureVars, genCount>>
        /\ Obs("loadDone", TRUE, FALSE, "break")

\* img.onload of loadImage
LoadDone(i) ==
    LET d == pending[i]
    IN  /\ d.op = "load"
        /\ pending' = RemoveAt(pending, i)
        /\ image' = d.src
        /\ objects' = <<>>
        /\ selectedObject' = Detach(selectedObject)
        /\ overlays' = DetachTargets(overlays)
        /\ canvasW' = d.src.w
        /\ canvasH' = d.src.h
        /\ zoomToFit(canvasW', canvasH')
        /\ history' = SavedHistory(<<>>, -1, Snapshot(objects', image', canvasW', canvasH'))
        /\ historyIndex' = 0
        /\ taint' = Clean
        /\ UNCHANGED <<toolVars, gestureVars, genCount>>
        /\ Obs("loadDone", TRUE, FALSE, "break")

\* img.onerror of loadImage that also runs the reset of onload
LoadFailResets(i) ==
    /\ pending[i].op = "load"
    /\ pending' = RemoveAt(pending, i)
    /\ objects' = <<>>
    /\ selectedObject' = Detach(selectedObject)
    /\ overlays' = DetachTargets(overlays)
    /\ history' = <<>>
    /\ historyIndex' = -1
    /\ UNCHANGED <<image, canvasW, canvasH, toolVars, gestureVars, zoomLevel, onZoomChange, display, genCount, taint>>
    /\ Obs("loadFail", FALSE, TRUE, "other")

\* img.onerror of loadImage: console.error and reject
LoadFail(i) ==
    /\ pending[i].op = "load"
    /\ pending' = RemoveAt(pending, i)
    /\ UNCHANGED <<editorVars, toolVars, gestureVars, zoomLevel, onZoomChange, display, overlays, genCount, taint>>
    /\ Obs("loadFail", FALSE, TRUE, "other")

\* newImg.onload of crop without the reset of state.objects
CropDoneKeepsObjects(i) ==
    LET d == pending[i]
    IN  /\ d.op = "crop"
        /\ CanSave
        /\ pending' = RemoveAt(pending, i)
        /\ image' = d.src
        /\ canvasW' = WholePixels(d.w)
        /\ canvasH' = WholePixels(d.h)
        /\ zoomToFit(canvasW', canvasH')
        /\ history' = SavedHistory(history, historyIndex,
                                   Snapshot(objects, image', canvasW', canvasH'))
        /\ historyIndex' = historyIndex + 1
        /\ taint' = Clean
        /\ UNCHANGED <<objects, selectedObject, overlays, toolVars, gestureVars, genCount>>
        /\ Obs("cropDone", TRUE, FALSE, "break")

\* newImg.onload of crop
CropDone(i) ==
    LET d == pending[i]
    IN  /\ d.op = "crop"
        /\ CanSave
        /\ pending' = RemoveAt(pending, i)
        /\ image' = d.src
        /\ objects' = <<>>
        /\ selectedObject' = Detach(selectedObject)
        /\ overlays' = DetachTargets(overlays)
        /\ canvasW' = WholePixels(d.w)
        /\ canvasH' = WholePixels(d.h)
        /\ zoomToFit(canvasW', canvasH')
        /\ history' = SavedHistory(history, historyIndex,
                                   Snapshot(objects', image', canvasW', canvasH'))
        /\ historyIndex' = historyIndex + 1
        /\ taint' = Clean
        /\ UNCHANGED <<toolVars, gestureVars, genCount>>
        /\ Obs("cropDone", TRUE, FALSE, "break")

\* newImg.onload of flip without saveHistory
FlipDoneNoCommit(i) ==
    LET d == pending[i]
    IN  /\ d.op = "flip"
        /\ pending' = RemoveAt(pending, i)
        /\ image' = d.src
        /\ objects' = <<>>
        /\ selectedObject' = Detach(selectedObject)
        /\ overlays' = DetachTargets(overlays)
        /\ taint' = [taint EXCEPT !.image = FALSE]
        /\ UNCHANGED <<history, historyIndex, canvasW, canvasH, zoomLevel, onZoomChange, display,
                       toolVars, gestureVars, genCount>>
        /\ Obs("flipDone", FALSE, FALSE, "break")

\* newImg.onload of flip
FlipDone(i) ==
    LET d == pending[i]
    IN  /\ d.op = "flip"
        /\ CanSave
        /\ pending' = RemoveAt(pending, i)
        /\ image' = d.src
        /\ objects' = <<>>
        /\ selectedObject' = Detach(selectedObject)
        /\ overlays' = DetachTargets(overlays)
        /\ history' = SavedHistory(history, historyIndex,
                                   Snapshot(objects', image', canvasW, canvasH))
        /\ historyIndex' = historyIndex + 1
        /\ taint' = [taint EXCEPT !.image = FALSE]
        /\ UNCHANGED <<canvasW, canvasH, zoomLevel, onZoomChange, display, toolVars, gestureVars,
                       genCount>>
        /\ Obs("flipDone", TRUE, FALSE, "break")

\* newImg.onload of rotate
RotateDone(i) ==
    LET d == pending[i]
    IN  /\ d.op = "rotate"
        /\ CanSave
        /\ pending' = RemoveAt(pending, i)
        /\ image' = d.src
        /\ objects' = <<>>
        /\ selectedObject' = Detach(selectedObject)
        /\ overlays' = DetachTargets(overlays)
        /\ canvasW' = d.w
        /\ canvasH' = d.h
        /\ setZoom(d.zoom)
        /\ history' = SavedHistory(history, historyIndex,
                                   Snapshot(objects', image', canvasW', canvasH'))
        /\ historyIndex' = historyIndex + 1
        /\ taint' = Clean
        /\ UNCHANGED <<toolVars, gestureVars, genCount>>
        /\ Obs("rotateDone", TRUE, FALSE, "break")

\* a decode started by crop, flip or rotate fails: no onerror is installed
TransformFail(i) ==
    /\ pending[i].op \in {"crop", "flip", "rotate"}
    /\ pending' = RemoveAt(pending, i)
    /\ UNCHANGED <<editorVars, toolVars, gestureVars, zoomLevel, onZoomChange, display, overlays, genCount, taint>>
    /\ Obs("transformFail", FALSE, FALSE, "other")

\* img.onload of restoreState
RestoreDone(i) ==
    LET d == pending[i]
    IN  /\ d.op = "restore"
        /\ pending' = RemoveAt(pending, i)
        /\ image' = d.src
        /\ canvasW' = d.w
        /\ canvasH' = d.h
        /\ zoomToFit(canvasW', canvasH')
        /\ taint' = Fetched(d.src)
        /\ UNCHANGED <<objects, history, historyIndex, selectedObject, toolVars,
                       gestureVars, overlays, genCount>>
        /\ Obs("restoreDone", FALSE, FALSE, "env")

\* img.onerror of restoreState without the snapshot's dimensions
RestoreFailKeepsSize(i) ==
    LET d == pending[i]
    IN  /\ d.op = "restore"
        /\ pending' = RemoveAt(pending, i)
        /\ UNCHANGED <<image, objects, history, historyIndex, selectedObject, canvasW,
                       canvasH, zoomLevel, onZoomChange, display, toolVars, gestureVars, overlays,
                       genCount, taint>>
        /\ Obs("restoreFail", FALSE, FALSE, "envfail")

\* img.onerror of restoreState: the dimensions are applied, nothing is reported
RestoreFail(i) ==
    LET d == pending[i]
    IN  /\ d.op = "restore"
        /\ pending' = RemoveAt(pending, i)
        /\ canvasW' = d.w
        /\ canvasH' = d.h
        /\ zoomToFit(canvasW', canvasH')
        /\ taint' = Redrawn
        /\ UNCHANGED <<image, objects, history, historyIndex, selectedObject, toolVars,
                       gestureVars, overlays, genCount>>
        /\ Obs("restoreFail", FALSE, FALSE, "envfail")

\* the user types into overlay i: textarea.value becomes value
TypeText(i, value) ==
    /\ i \in 1..Len(overlays)
    /\ ~overlays[i].finished
    /\ overlays[i].value # value
    /\ overlays' = [overlays EXCEPT ![i].value = value]
    /\ UNCHANGED <<editorVars, toolVars, gestureVars, zoomLevel, onZoomChange, display, pending, genCount, taint>>
    /\ Obs("typeText", FALSE, FALSE, "other")

\* finish() of overlay i: Enter without Shift, or blur.  It returns at once
\* when finished is set.
ConfirmText(i) ==
    /\ i \in 1..Len(overlays)
    /\ UNCHANGED <<image, selectedObject, canvasW, canvasH, toolVars, activeObject,
                   startPos, dragOffset, isDragging, zoomLevel, onZoomChange, display, pending, genCount, taint>>
    /\ LET t == overlays[i]
       IN  IF t.finished
           THEN /\ UNCHANGED <<overlays, objects, history, historyIndex, isDrawing,
                               isEditingText>>
                /\ Observe(IF t.kind = "new" THEN "confirmText" ELSE "confirmEdit",
                           FALSE, FALSE, "other", <<i>>)
           ELSE IF t.kind = "new"
           THEN /\ overlays' = Detached(overlays, i)
                /\ isDrawing' = FALSE
                /\ UNCHANGED isEditingText
                /\ IF Trim(t.value) # <<>>
                   THEN /\ Len(objects) < limits.objs
                        /\ CanSave
                        /\ objects' = Append(objects, NewTextObject(t.pos, t.value))
                        /\ history' = SavedHistory(history, historyIndex,
                                          Snapshot(objects', image, canvasW, canvasH))
                        /\ historyIndex' = historyIndex + 1
                        /\ Observe("confirmText", TRUE, FALSE, "commit", <<i>>)
                   ELSE /\ UNCHANGED <<objects, history, historyIndex>>
                        /\ Observe("confirmText", FALSE, FALSE, "other", <<i>>)
           ELSE /\ overlays' = Detached(overlays, i)
                /\ isEditingText' = FALSE
                /\ UNCHANGED isDrawing
                /\ objects' = IF t.obj = Dangling THEN objects
                              ELSE [objects EXCEPT ![t.obj].text =
                                      IF Trim(t.value) # <<>> THEN Trim(t.value)
                                      ELSE t.originalText]
                /\ IF t.value # t.originalText
                   THEN /\ CanSave
                        /\ history' = SavedHistory(history, historyIndex,
                                          Snapshot(objects', image, canvasW, canvasH))
                        /\ historyIndex' = historyIndex + 1
                        /\ Observe("confirmEdit", TRUE, FALSE, "commit", <<i>>)
                   ELSE /\ UNCHANGED <<history, historyIndex>>
                        /\ Observe("confirmEdit", FALSE, FALSE, "other", <<i>>)

\* the Escape branch of overlay i's onkeydown.  On a detached textarea
\* removeChild throws NotFoundError, after finished and (inline edit) obj.text
\* were assigned and before the flag of the editor is cleared.
EscapeText(i) ==
    /\ i \in 1..Len(overlays)
    /\ UNCHANGED <<image, history, historyIndex, selectedObject, canvasW, canvasH,
                   toolVars, activeObject, startPos, dragOffset, isDragging, zoomLevel, onZoomChange, display,
                   pending, genCount, taint>>
    /\ LET t == overlays[i]
       IN  /\ objects' = IF t.kind = "new" \/ t.obj = Dangling THEN objects
                         ELSE [objects EXCEPT ![t.obj].text = t.originalText]
           /\ IF t.finished
              THEN /\ UNCHANGED <<overlays, isDrawing, isEditingText>>
                   /\ Observe("escapeText", FALSE, TRUE, "other", <<i>>)
              ELSE /\ overlays' = Detached(overlays, i)
                   /\ isDrawing' = IF t.kind = "new" THEN FALSE ELSE isDrawing
                   /\ isEditingText' = IF t.kind = "new" THEN isEditingText ELSE FALSE
                   /\ Observe("escapeText", FALSE, FALSE, "other", <<i>>)

\* editor.getTextAnnotations: the text objects without an id get one, numbered
\* from 0 within this call; an id `text_${n}_${x}_${y}` is the tuple <<n, x, y>>
RECURSIVE AssignIds(_, _)
AssignIds(objs, counter) ==
    IF objs = <<>> THEN <<>>
    ELSE LET o == Head(objs)
         IN  IF o.type = "text" /\ o.textId = NoId
             THEN <<[o EXCEPT !.textId = <<counter, Round(o.x), Round(o.y)>>]>>
                  \o AssignIds(Tail(objs), counter + 1)
             ELSE <<o>> \o AssignIds(Tail(objs), counter)

\* getTextAnnotations on a live list that restoreFromHistory did not copy:
\* the ids land in the entry at the cursor as well
GetTextAnnotationsOnEntry ==
    /\ objects' = AssignIds(objects, 0)
    /\ history' = IF historyIndex >= 0
                  THEN [history EXCEPT ![historyIndex + 1].objects = objects']
                  ELSE history
    /\ UNCHANGED <<image, historyIndex, selectedObject, canvasW, canvasH,
                   toolVars, gestureVars, zoomLevel, onZoomChange, display, pending, overlays, genCount, taint>>
    /\ Obs("getTextAnnotations", FALSE, FALSE, "other")

GetTextAnnotations ==
    /\ objects' = AssignIds(objects, 0)
    /\ UNCHANGED <<image, history, historyIndex, selectedObject, canvasW, canvasH,
                   toolVars, gestureVars, zoomLevel, onZoomChange, display, pending, overlays, genCount, taint>>
    /\ Obs("getTextAnnotations", FALSE, FALSE, "other")


\* editor.setTranslations(langCode, translations)
SetTranslations(langCode, map) ==
    /\ translations' = [l \in DOMAIN translations \cup {langCode} |->
                          IF l = langCode THEN map ELSE translations[l]]
    /\ translations' # translations
    /\ UNCHANGED <<editorVars, currentTool, currentColor, cropAspectRatio, gestureVars,
                   zoomLevel, onZoomChange, display, pending, overlays, genCount, taint>>
    /\ Obs("setTranslations", FALSE, FALSE, "other")

\* exportWithTranslations: the substitution loop; a text object is replaced
\* when it has an id and the map holds a non-empty string for it
Substituted(objs, map) ==
    {i \in 1..Len(objs) :
        /\ objs[i].type = "text"
        /\ objs[i].textId # NoId
        /\ objs[i].textId \in DOMAIN map
        /\ map[objs[i].textId] # <<>>}
ApplyTranslations(objs, map) ==
    [i \in 1..Len(objs) |->
        IF i \in Substituted(objs, map)
        THEN [objs[i] EXCEPT !.text = map[objs[i].textId]] ELSE objs[i]]
\* the loop over originalTexts, which maps each substituted object to its text
RestoreTexts(translated, originals, substituted) ==
    [i \in 1..Len(translated) |->
        IF i \in substituted
        THEN [translated[i] EXCEPT !.text = originals[i].text] ELSE translated[i]]

\* what a call hands back: null, a data URL, or nothing because it threw
Null == [kind |-> "null"]
Thrown == [kind |-> "throws"]
\* canvas.toDataURL() after render(): the image and the objects as drawn on a
\* surface of the canvas's size
Rendered(objs) ==
    [kind |-> "data", w |-> canvasW, h |-> canvasH, image |-> image.id, objects |-> objs]

\* this.translations[langCode] on a plain object: the map set for the code,
\* else what every object inherits under that name (a function, truthy, with
\* no text id among its properties), else undefined
Inherited == {"constructor"}
NoMap == [id \in {} |-> <<>>]
Lookup(langCode) ==
    IF langCode \in DOMAIN translations THEN translations[langCode] ELSE NoMap

\* editor.exportWithTranslations(langCode): toDataURL throws on a canvas that
\* is not origin-clean, after the texts were substituted and before they are
\* put back
ExportWithTranslations(langCode) ==
    LET map == Lookup(langCode)
        translated == ApplyTranslations(objects, map)
        result == IF langCode \notin DOMAIN translations \cup Inherited THEN Null
                  ELSE IF taint.canvas THEN Thrown
                  ELSE Rendered(translated)
    IN  /\ objects' = IF result = Null THEN objects
                      ELSE IF result = Thrown THEN translated
                      ELSE RestoreTexts(translated, objects, Substituted(objects, map))
        /\ UNCHANGED <<image, history, historyIndex, selectedObject, canvasW, canvasH,
                       toolVars, gestureVars, zoomLevel, onZoomChange, display, pending, overlays,
                       genCount, taint>>
        /\ Observe("exportWithTranslations", FALSE, result = Thrown, "other",
                   <<langCode, result>>)

\* editor.export
Export ==
    /\ UNCHANGED <<editorVars, toolVars, gestureVars, zoomLevel, onZoomChange, display, pending,
                   overlays, genCount, taint>>
    /\ Observe("export", FALSE, taint.canvas, "other",
               <<IF taint.canvas THEN Thrown ELSE Rendered(objects)>>)

\* editor.clearTranslations(langCode): an empty code clears every language
ClearTranslations(langCode) ==
    /\ translations' = IF langCode # ""
                       THEN [l \in DOMAIN translations \ {langCode} |-> translations[l]]
                       ELSE [l \in {} |-> <<>>]
    /\ UNCHANGED <<editorVars, currentTool, currentColor, cropAspectRatio, gestureVars,
                   zoomLevel, onZoomChange, display, pending, overlays, genCount, taint>>
    /\ Obs("clearTranslations", FALSE, FALSE, "other")

\* the loop of exportAllVersions over Object.keys(this.translations): each
\* export is stored under its language code, over whatever the key held
RECURSIVE ExportEach(_, _, _)
ExportEach(langs, objs, result) ==
    IF langs = {} THEN [objects |-> objs, result |-> result]
    ELSE LET langCode == CHOOSE l \in langs : TRUE
             map == translations[langCode]
             translated == ApplyTranslations(objs, map)
             exported == Rendered(translated)
         IN  ExportEach(langs \ {langCode},
                        RestoreTexts(translated, objs, Substituted(objs, map)),
                        [k \in DOMAIN result \cup {langCode} |->
                            IF k = langCode THEN exported ELSE result[k]])

\* editor.exportAllVersions: the plain export comes first and throws on a
\* canvas that is not origin-clean
ExportAllVersions ==
    LET all == ExportEach(DOMAIN translations, objects,
                          [k \in {"original"} |-> Rendered(objects)])
    IN  /\ objects' = IF taint.canvas THEN objects ELSE all.objects
        /\ UNCHANGED <<image, history, historyIndex, selectedObject, canvasW, canvasH,
                       toolVars, gestureVars, zoomLevel, onZoomChange, display, pending, overlays,
                       genCount, taint>>
        /\ Observe("exportAllVersions", FALSE, taint.canvas, "other",
                   <<IF taint.canvas THEN Thrown ELSE all.result>>)

\* --------------------------------------------------------------- behaviours
\* image decodes completing or failing
DecodeStep ==
    \/ \E i \in 1..Len(pending) : LoadDone(i)
    \/ \E i \in 1..Len(pending) : LoadFail(i)
    \/ \E i \in 1..Len(pending) : RestoreDone(i)
    \/ \E i \in 1..Len(pending) : RestoreFail(i)

\* History: an image is loaded and annotated with rectangles, which are
\* moved, recoloured and deleted; the history is walked.
Next ==
    \/ \E source \in Sources : LoadImage(source)
    \/ \E tool \in {"select", "rect"} : SetTool(tool)
    \/ \E color \in {"blue"} : SetColor(color)
    \/ KeyDelete
    \/ Undo
    \/ Redo
    \/ \E pos \in DownPositions : MouseDown(pos, 1)
    \/ \E pos \in MovePositions : MouseMove(pos)
    \/ MouseUp
    \/ DecodeStep

WatchHistory ==
    {"undo", "redo", "loadDone", "loadFail", "committed", "signal", "before"}

Init == InitPage /\ watch = WatchHistory /\ limits = Wide /\ run = NoRun
Spec == Init /\ [][Next]_vars

\* Walking a history whose entries record different images: an image is
\* loaded, rectangles are drawn, the image is rotated, and undo / redo run
\* while decodes are in flight.
NextWalk ==
    \/ \E source \in Sources : LoadImage(source)
    \/ \E tool \in {"rect"} : SetTool(tool)
    \/ \E pos \in DownPositions : MouseDown(pos, 1)
    \/ \E pos \in MovePositions : MouseMove(pos)
    \/ MouseUp
    \/ \E direction \in {"right"} : Rotate(direction)
    \/ \E i \in 1..Len(pending) : RotateDone(i)
    \/ \E i \in 1..Len(pending) : TransformFail(i)
    \/ Undo
    \/ Redo
    \/ DecodeStep

InitPair == InitPage /\ watch = {} /\ limits = Wide /\ run = [NoRun EXCEPT !.mode = "pair"]
SpecPair == InitPair /\ [][NextWalk]_vars

InitRestores == InitPage /\ watch = {} /\ limits = Wide /\ run = [NoRun EXCEPT !.mode = "restores"]
SpecRestores == InitRestores /\ [][NextWalk]_vars

\* Editing without an image: every way of changing the object list, with
\* undo and redo restoring synchronously (the entries hold no image source).
NextEdit ==
    \/ \E tool \in {"select", "rect", "text"} : SetTool(tool)
    \/ \E color \in {"blue"} : SetColor(color)
    \/ KeyDelete
    \/ Undo
    \/ Redo
    \/ \E pos \in DownPositions, detail \in {1, 2} : MouseDown(pos, detail)
    \/ \E pos \in MovePositions : MouseMove(pos)
    \/ MouseUp
    \/ \E i \in 1..Len(overlays), value \in TypedTexts : TypeText(i, value)
    \/ \E i \in 1..Len(overlays) : ConfirmText(i)
    \/ \E i \in 1..Len(overlays) : EscapeText(i)
    \/ GetTextAnnotations
    \/ \E lang \in Languages, map \in TranslationMaps : SetTranslations(lang, map)
    \/ \E lang \in Languages : ExportWithTranslations(lang)

InitEdit == InitPage /\ watch = {"committed"} /\ limits = Narrow /\ run = NoRun
SpecEdit == InitEdit /\ [][NextEdit]_vars

\* Commits and undo: text objects are added, moved, recoloured, edited and
\* deleted, and the commits are undone.
NextCommits ==
    \/ \E tool \in {"select", "text"} : SetTool(tool)
    \/ \E color \in {"blue"} : SetColor(color)
    \/ KeyDelete
    \/ Undo
    \/ Redo
    \/ \E pos \in DownPositions, detail \in {1, 2} : MouseDown(pos, detail)
    \/ \E pos \in MovePositions : MouseMove(pos)
    \/ MouseUp
    \/ \E i \in 1..Len(overlays), value \in {<<"a">>, <<"b">>} : TypeText(i, value)
    \/ \E i \in 1..Len(overlays) : ConfirmText(i)
    \/ \E i \in 1..Len(overlays) : EscapeText(i)

InitCommits ==
    /\ InitPage /\ watch = {}
    /\ limits = [objs |-> EditMaxObjs, hist |-> MaxHist]
    /\ run = [NoRun EXCEPT !.mode = "commits", !.quiet = TRUE]
SpecCommits == InitCommits /\ [][NextCommits]_vars

\* Transforms: every operation that starts a decode, and its failure.
NextTransform ==
    \/ \E source \in Sources : LoadImage(source)
    \/ \E tool \in {"crop"} : SetTool(tool)
    \/ \E pos \in DownPositions : MouseDown(pos, 1)
    \/ \E pos \in MovePositions : MouseMove(pos)
    \/ MouseUp
    \/ \E direction \in Directions : Flip(direction)
    \/ \E direction \in Rotations : Rotate(direction)
    \/ \E i \in 1..Len(pending) : CropDone(i)
    \/ \E i \in 1..Len(pending) : FlipDone(i)
    \/ \E i \in 1..Len(pending) : RotateDone(i)
    \/ \E i \in 1..Len(pending) : TransformFail(i)
    \/ Undo
    \/ Redo
    \/ DecodeStep

WatchDecodes == {"loadFail", "transformFail", "restoreFail", "signal"}
InitTransform == InitPage /\ watch = WatchDecodes /\ limits = Wide /\ run = NoRun
SpecTransform == InitTransform /\ [][NextTransform]_vars

\* Flipping and rotating: an image is loaded, a rectangle is drawn on it, and
\* it is flipped and rotated while the zoom level is changed; commits are
\* undone.
NextTurn ==
    \/ \E source \in Sources : LoadImage(source)
    \/ \E tool \in {"rect"} : SetTool(tool)
    \/ \E pos \in DownPositions : MouseDown(pos, 1)
    \/ \E pos \in MovePositions : MouseMove(pos)
    \/ MouseUp
    \/ \E level \in {Level(7, 4)} : SetZoom(level)
    \/ \E direction \in Directions : Flip(direction)
    \/ \E direction \in Rotations : Rotate(direction)
    \/ \E i \in 1..Len(pending) : FlipDone(i)
    \/ \E i \in 1..Len(pending) : RotateDone(i)
    \/ \E i \in 1..Len(pending) : TransformFail(i)
    \/ Undo
    \/ DecodeStep

WatchTurn == {"flipDone", "rotate", "rotateDone"}
InitTurn ==
    /\ InitPage /\ watch = WatchTurn
    /\ limits = [objs |-> EditMaxObjs, hist |-> MaxHist]
    /\ run = NoRun
SpecTurn == InitTurn /\ [][NextTurn]_vars

\* Zooming: images of several sizes are loaded into containers of several
\* sizes, one decode at a time; the level is set, stepped, fitted and reset,
\* and an image is cropped and the crop undone, which re-fit the level.
ZoomSources == {[id |-> 1, w |-> 20, h |-> 12], [id |-> 8, w |-> 1600, h |-> 600],
                [id |-> 9, w |-> 9000, h |-> 300]}
Containers == {NoLayout, [w |-> 400, h |-> 300]}
NextZoom ==
    \/ \E source \in ZoomSources : pending = <<>> /\ LoadImage(source)
    \/ \E level \in ZoomInputs : SetZoom(level)
    \/ ZoomIn
    \/ ZoomOut
    \/ ZoomToFit
    \/ ResetZoom
    \/ \E deltaY \in {-1, 1} : Wheel(deltaY)
    \/ \E tool \in {"crop"} : SetTool(tool)
    \/ \E pos \in DownPositions : MouseDown(pos, 1)
    \/ \E pos \in MovePositions : MouseMove(pos)
    \/ MouseUp
    \/ \E i \in 1..Len(pending) : CropDone(i)
    \/ \E i \in 1..Len(pending) : TransformFail(i)
    \/ Undo
    \/ DecodeStep

WatchZoom == {"onZoomChange", "arg", "setZoom", "zoomIn", "zoomOut", "zoomToFit",
              "resetZoom", "loadDone"}
InitZoom ==
    /\ InitEditor /\ container \in Containers
    /\ watch = WatchZoom /\ limits = Wide /\ run = NoRun
SpecZoom == InitZoom /\ [][NextZoom]_vars

\* Cropping: an image is loaded, a rectangle is drawn on it, and crop
\* rectangles are dragged in every direction from one corner, to extents
\* just below, at and just above the size floor.
CropDown == {[x |-> Units(12), y |-> Units(12)]}
CropDeltas == {-(Units(MinCrop) + 1), -(Units(MinCrop) - 1), Units(MinCrop) - 1,
               Units(MinCrop)}
CropMoves == {[x |-> Units(12) + dx, y |-> Units(12) + dy] : dx, dy \in CropDeltas}
NextCrop ==
    \/ \E source \in Sources : LoadImage(source)
    \/ \E tool \in {"crop", "rect"} : SetTool(tool)
    \/ \E pos \in IF currentTool = "crop" THEN CropDown ELSE DownPositions : MouseDown(pos, 1)
    \/ \E pos \in IF currentTool = "crop" THEN CropMoves ELSE MovePositions : MouseMove(pos)
    \/ MouseUp
    \/ \E i \in 1..Len(pending) : LoadDone(i)
    \/ \E i \in 1..Len(pending) : LoadFail(i)
    \/ \E i \in 1..Len(pending) : CropDone(i)
    \/ \E i \in 1..Len(pending) : TransformFail(i)

WatchCrop == {"mouseUp", "cropDone", "arg"}
InitCrop ==
    /\ InitPage /\ watch = WatchCrop
    /\ limits = [objs |-> EditMaxObjs, hist |-> MaxHist]
    /\ run = NoRun
SpecCrop == InitCrop /\ [][NextCrop]_vars

\* Export: a text is placed on an image from this or from another origin, the
\* history is walked, translations are set and cleared, and the surface is
\* exported plainly, for one language, and for all of them.
ExportLanguages == {"es", "original"}
NextExport ==
    \/ \E source \in Sources \cup RemoteSources : pending = <<>> /\ LoadImage(source)
    \/ \E tool \in {"text"} : SetTool(tool)
    \/ \E pos \in DownPositions, detail \in {1} : MouseDown(pos, detail)
    \/ \E i \in 1..Len(overlays), value \in {<<"a">>} : TypeText(i, value)
    \/ \E i \in 1..Len(overlays) : ConfirmText(i)
    \/ Undo
    \/ Redo
    \/ DecodeStep
    \/ GetTextAnnotations
    \/ \E lang \in ExportLanguages, map \in TranslationMaps : SetTranslations(lang, map)
    \/ \E lang \in ExportLanguages \cup {""} : ClearTranslations(lang)
    \/ \E lang \in ExportLanguages \cup Inherited \cup {"fr"} : ExportWithTranslations(lang)
    \/ Export
    \/ ExportAllVersions

WatchExport == {"arg", "export", "exportWithTranslations", "exportAllVersions",
                "setTranslations", "clearTranslations", "undo", "redo", "committed"}
InitExport == InitPage /\ watch = WatchExport /\ limits = Narrow /\ run = NoRun
SpecExport == InitExport /\ [][NextExport]_vars

\* Identifiers: texts are placed (all at one position), dragged and reported
\* by getTextAnnotations while the history is walked; no image is loaded, so
\* a restore is complete when undo() or redo() returns.
NextIds ==
    \/ \E tool \in {"select", "text"} : SetTool(tool)
    \/ \E pos \in DownPositions, detail \in {1} : MouseDown(pos, detail)
    \/ \E pos \in MovePositions : MouseMove(pos)
    \/ MouseUp
    \/ \E i \in 1..Len(overlays), value \in {<<"a">>} : TypeText(i, value)
    \/ \E i \in 1..Len(overlays) : ConfirmText(i)
    \/ GetTextAnnotations
    \/ Undo
    \/ Redo

InitIds == InitPage /\ watch = {"getTextAnnotations"} /\ limits = Wide /\ run = NoRun
SpecIds == InitIds /\ [][NextIds]_vars

\* Cursor: an image is loaded, rectangles are drawn, the history is walked,
\* and canUndo() / canRedo() are asked at any point.
NextCursor ==
    \/ \E source \in Sources : pending = <<>> /\ LoadImage(source)
    \/ \E tool \in {"rect"} : SetTool(tool)
    \/ \E pos \in DownPositions, detail \in {1} : MouseDown(pos, detail)
    \/ \E pos \in MovePositions : MouseMove(pos)
    \/ MouseUp
    \/ Undo
    \/ Redo
    \/ DecodeStep
    \/ CanUndo
    \/ CanRedo

InitCursor ==
    InitPage /\ watch = {"canUndo", "canRedo", "arg"} /\ limits = Wide /\ run = NoRun
SpecCursor == InitCursor /\ [][NextCursor]_vars

\* Ratio: crop rectangles are dragged in every direction under the aspect
\* ratios that setCropAspectRatio accepts; the ratio may change during a drag.
RatioInputs ==
    {[kind |-> "free", width |-> 0, height |-> 0],
     [kind |-> "square", width |-> 0, height |-> 0],
     [kind |-> "string", width |-> 16, height |-> 9],
     [kind |-> "object", width |-> 4, height |-> 3],
     [kind |-> "object", width |-> 0, height |-> 9]}
RatioMoves ==
    {[x |-> Units(12) + Units(dx), y |-> Units(12) + Units(dy)] :
        dx \in {-48, 0, 48, 200}, dy \in {-27, 0, 27, 50}}
NextRatio ==
    \/ \E ratio \in RatioInputs : SetCropAspectRatio(ratio)
    \/ \E tool \in {"crop"} : SetTool(tool)
    \/ \E pos \in CropDown, detail \in {1} : MouseDown(pos, detail)
    \/ \E pos \in RatioMoves : MouseMove(pos)

InitRatio == InitPage /\ watch = {"mouseMove", "arg"} /\ limits = Wide /\ run = NoRun
SpecRatio == InitRatio /\ [][NextRatio]_vars

\* Hit: on an editor where up to two objects have been drawn (a freehand
\* stroke, an arrow, rectangles dragged forwards and backwards, a text), over
\* one another or apart, the select tool is pressed at points inside, on the
\* edge of and outside their tolerance, and released.
HitObjects ==
    LET at(x, y) == [x |-> Units(x), y |-> Units(y)]
    IN  {[NewActiveObject("pencil", at(0, 0)) EXCEPT !.points = <<at(0, 0), at(12, 12)>>],
         [NewActiveObject("arrow", at(0, 0)) EXCEPT !.w = Units(24), !.h = Units(0)],
         [NewActiveObject("rect", at(20, 0)) EXCEPT !.w = Units(12), !.h = Units(12)],
         [NewActiveObject("rect", at(12, 12)) EXCEPT !.w = -Units(12), !.h = -Units(12)],
         NewTextObject(at(40, 30), <<"a">>)}
HitLists ==
    {<<>>} \cup {<<a>> : a \in HitObjects} \cup {<<a, b>> : a \in HitObjects, b \in HitObjects}
\* where the pointer went down to draw o
DrawnFrom(o) == IF o.type = "pencil" THEN o.points[1] ELSE [x |-> o.x, y |-> o.y]
HitPoints ==
    {[x |-> Units(x), y |-> Units(y)] :
        <<x, y>> \in {<<6, 7>>, <<6, 8>>, <<12, 9>>, <<-10, 0>>, <<22, 22>>, <<23, 23>>,
                      <<43, 0>>, <<45, 20>>}}
NextHit ==
    \/ \E pos \in HitPoints, detail \in {1} : MouseDown(pos, detail)
    \/ MouseUp

\* the state after the objects of a list were drawn one by one, each release
\* committing, and the select tool was chosen
InitHit ==
    /\ currentColor = DefaultColor
    /\ image = NoImage
    /\ objects \in HitLists
    /\ history = [n \in 1..Len(objects) |->
                    Snapshot(SubSeq(objects, 1, n), NoImage, DefaultCanvasW, DefaultCanvasH)]
    /\ historyIndex = Len(objects) - 1
    /\ currentTool = "select"
    /\ activeObject = NoObject
    /\ isDrawing = FALSE
    /\ selectedObject = 0
    /\ isEditingText = FALSE
    /\ cropAspectRatio = NoRatio
    /\ startPos = IF objects = <<>> THEN NoPos ELSE DrawnFrom(objects[Len(objects)])
    /\ dragOffset = NoOffset
    /\ isDragging = FALSE
    /\ canvasW = DefaultCanvasW
    /\ canvasH = DefaultCanvasH
    /\ zoomLevel = DefaultZoom
    /\ onZoomChange = NoCalls
    /\ display = NoDisplay
    /\ container = NoLayout
    /\ pending = <<>>
    /\ overlays = <<>>
    /\ genCount = 0
    /\ taint = Clean
    /\ translations = [l \in {} |-> <<>>]
    /\ ev = [op |-> "other", committed |-> FALSE, signal |-> FALSE, at |-> -1, had |-> 0,
             arg |-> <<>>]
    /\ watch = {"mouseDown", "arg"}
    /\ limits = [objs |-> MaxObjs, hist |-> MaxHist + 1]
    /\ run = NoRun
SpecHit == InitHit /\ [][NextHit]_vars

\* Deleting: texts are placed, selected, dragged, edited in place and
\* deleted with the Delete key.
KeyPositions == DownPositions \cup MovePositions
NextKeys ==
    \/ \E tool \in {"select", "text"} : SetTool(tool)
    \/ \E pos \in KeyPositions, detail \in {1, 2} : MouseDown(pos, detail)
    \/ \E pos \in MovePositions : MouseMove(pos)
    \/ MouseUp
    \/ \E i \in 1..Len(overlays), value \in {<<"a">>} : TypeText(i, value)
    \/ \E i \in 1..Len(overlays) : ConfirmText(i)
    \/ \E i \in 1..Len(overlays) : EscapeText(i)
    \/ KeyDelete

InitKeys == InitPage /\ watch = {"keyDelete"} /\ limits = Wide /\ run = NoRun
SpecKeys == InitKeys /\ [][NextKeys]_vars

\* Drawing: strokes, rectangles and crop rectangles are drawn while the tool
\* is switched, Escape is pressed and the history is walked in the middle of
\* a gesture; accepted crops complete.
NextDraw ==
    \/ \E tool \in {"select", "pencil", "rect", "crop"} : SetTool(tool)
    \/ \E pos \in DownPositions : MouseDown(pos, 1)
    \/ \E pos \in MovePositions : MouseMove(pos)
    \/ MouseUp
    \/ KeyEscape
    \/ \E i \in 1..Len(pending) : CropDone(i)
    \/ Undo
    \/ Redo
    \/ \E i \in 1..Len(pending) : RestoreDone(i)
    \/ \E i \in 1..Len(pending) : RestoreFail(i)

WatchDraw == {"keyEscape", "mouseUp"}
InitDraw == InitPage /\ watch = WatchDraw /\ limits = Narrow /\ run = NoRun
SpecDraw == InitDraw /\ [][NextDraw]_vars

\* Display: an image is loaded, the level is stepped, set, fitted and reset,
\* the image is rotated, and commits are undone and redone; the size given to
\* the canvas element is followed.
NextShow ==
    \/ \E source \in Sources : pending = <<>> /\ LoadImage(source)
    \/ ZoomIn
    \/ ResetZoom
    \/ ZoomToFit
    \/ \E level \in {Level(1, 2)} : SetZoom(level)
    \/ \E direction \in {"right"} : Rotate(direction)
    \/ \E i \in 1..Len(pending) : RotateDone(i)
    \/ Undo
    \/ Redo
    \/ DecodeStep

InitShow == InitPage /\ watch = {"display"} /\ limits = Narrow /\ run = NoRun
SpecShow == InitShow /\ [][NextShow]_vars

\* Text input: a text is placed and edited in place; Enter, blur and Escape
\* reach a textarea in any order, also after it left the document; commits
\* are undone and redone.
KeyTexts == {<<>>, <<" ">>, <<"a">>, <<"a", " ">>}
NextText ==
    \/ \E tool \in {"select", "text"} : SetTool(tool)
    \/ \E pos \in DownPositions, detail \in {1, 2} : MouseDown(pos, detail)
    \/ MouseUp
    \/ \E i \in 1..Len(overlays), value \in KeyTexts : TypeText(i, value)
    \/ \E i \in 1..Len(overlays) : ConfirmText(i)
    \/ \E i \in 1..Len(overlays) : EscapeText(i)
    \/ Undo
    \/ Redo

WatchText == {"confirmText", "confirmEdit", "escapeText", "detached", "committed",
              "before", "arg"}
InitText == InitPage /\ watch = WatchText /\ limits = Narrow /\ run = NoRun
SpecText == InitText /\ [][NextText]_vars






\* ------------------------------------------------------------------ claims
\* the history entry at the cursor
Entry == history[historyIndex + 1]
RestorePending == \E i \in 1..Len(pending) : pending[i].op = "restore"

\* C1: from a state with no gesture, overlay or decode in progress, after N
\* commits, N consecutive undo() calls return the live object list to the
\* list of that state, and canUndo() is false.
C1_UndoAllCommits ==
    run.mode = "commits" /\ run.phase = "done"
        => objects = run.objs /\ ~canUndo

\* C2: from a state with canUndo() and nothing in progress, undo() then
\* redo(), each restore's decode completing, leave the live object list, the
\* live image source and the canvas dimensions as they were before the undo.
C2_UndoRedoIdentity ==
    run.mode = "pair" /\ run.phase = "done"
        => /\ objects = run.objs
           /\ image = run.entry[1].imageSrc
           /\ canvasW = run.entry[1].canvasWidth
           /\ canvasH = run.entry[1].canvasHeight

\* C3: a commit made with the cursor at i keeps entries 0..i, puts the new
\* entry after them and the cursor on it, so canRedo() is false and every
\* entry beyond i is gone.  (The commit of loadImage's onload runs on the
\* history that onload has just emptied: C8.)
C3_CommitTruncates ==
    [][ev'.committed /\ ev'.op # "loadDone"
        => /\ historyIndex' = historyIndex + 1
           /\ Len(history') = historyIndex + 2
           /\ SubSeq(history', 1, historyIndex + 1) = SubSeq(history, 1, historyIndex + 1)
           /\ history'[historyIndex' + 1] = Snapshot(objects', image', canvasW', canvasH')
           /\ ~canRedo']_vars
\* a commit has just discarded a redoable entry
C3_Witness ==
    ev.committed /\ ev.op # "loadDone" /\ ev.at >= 0 /\ ev.at < ev.had - 1

\* C4: undo() at the first entry or on an empty history, and redo() at the
\* last entry, change neither the cursor, the history, the live object list,
\* the selection, the image nor the canvas dimensions, and start no decode.
C4_NoOpAtEnds ==
    [][(ev'.op = "undo" /\ historyIndex <= 0)
         \/ (ev'.op = "redo" /\ historyIndex >= Len(history) - 1)
        => UNCHANGED <<historyIndex, history, objects, selectedObject, image,
                       canvasW, canvasH, pending>>]_vars
\* undo() has just been called at the first of two entries, with an object selected
C4_Witness ==
    ev.op = "undo" /\ ev.at = 0 /\ ev.had = 2 /\ selectedObject > 0

\* C5: after undo() and redo() calls, once every decode they started has
\* completed, in whatever order, the live object list, image and canvas
\* dimensions are those of the entry at the cursor and nothing is selected.
C5_RestoreSettles ==
    run.mode = "restores" /\ run.phase = "restoring" /\ pending = <<>>
        => /\ historyIndex >= 0
           /\ objects = Entry.objects
           /\ Entry.imageSrc # NoImage => image = Entry.imageSrc
           /\ canvasW = Entry.canvasWidth
           /\ canvasH = Entry.canvasHeight
           /\ selectedObject = 0

\* C6: while the decode started by a restore is pending, a further undo() or
\* redo() call moves no cursor and replaces no object list.
C6_NoRestoreWhilePending ==
    [][RestorePending /\ ev'.op \in {"undo", "redo"}
        => historyIndex' = historyIndex /\ objects' = objects]_vars

\* C7: an entry of the history never changes once appended: a step that does
\* not commit leaves the whole history as it is, and a commit leaves the
\* entries up to the cursor as they are.  Only a commit's truncation and a
\* successful loadImage remove entries.
C7_EntriesImmutable ==
    [][IF ev'.op = "loadDone" THEN TRUE
       ELSE IF ev'.committed
       THEN SubSeq(history', 1, historyIndex + 1) = SubSeq(history, 1, historyIndex + 1)
       ELSE history' = history]_vars
\* the live list carries an id that the entry at the cursor, from which it
\* was restored, does not
C7_Witness ==
    /\ historyIndex = 0 /\ Len(history) = 2
    /\ objects # <<>> /\ objects[1].textId # NoId
    /\ Len(Entry.objects) = Len(objects)
    /\ Entry.objects[1].textId = NoId

\* C8: when loadImage's decode succeeds, the live image is the loaded one,
\* the object list is empty, the canvas has the image's dimensions, and the
\* history is exactly one entry, for that image and no objects, with the
\* cursor on it: neither canUndo() nor canRedo().
C8_LoadSuccess ==
    [][ev'.op = "loadDone"
        => /\ \E i \in 1..Len(pending) :
                /\ pending[i].op = "load"
                /\ image' = pending[i].src
                /\ pending' = RemoveAt(pending, i)
           /\ objects' = <<>>
           /\ canvasW' = image'.w /\ canvasH' = image'.h
           /\ history' = <<Snapshot(<<>>, image', image'.w, image'.h)>>
           /\ historyIndex' = 0
           /\ ~canUndo' /\ ~canRedo']_vars
\* an image has just been loaded over a history of three entries
C8_Witness ==
    ev.op = "loadDone" /\ ev.had = 3 /\ ev.at = 1 /\ Len(history) = 1

\* C9: when loadImage's decode fails the promise is rejected and nothing but
\* the finished decode changes; the call itself changed nothing either.
C9_LoadFailure ==
    [][/\ ev'.op = "loadFail"
          => /\ ev'.signal
             /\ UNCHANGED <<editorVars, toolVars, gestureVars, zoomLevel, onZoomChange, display, overlays,
                            genCount, taint>>
       /\ (Len(pending') = Len(pending) + 1 /\ pending'[Len(pending')].op = "load")
          => UNCHANGED <<editorVars, toolVars, gestureVars, zoomLevel, onZoomChange, display, overlays,
                         genCount, taint>>]_vars
\* a load has just failed on an editor holding an image, an object and two entries
C9_Witness ==
    /\ ev.op = "loadFail" /\ ev.signal
    /\ image # NoImage /\ objects # <<>> /\ historyIndex = 1

\* C10: a decode that fails, whichever operation started it, raises an
\* error-class signal.
C10_FailureObservable ==
    [][ev'.op \in {"loadFail", "transformFail", "restoreFail"} => ev'.signal]_vars

C12_SmallCropNoEffect ==
    [][/\ ev'.op = "mouseUp" /\ ev'.arg # <<>>
       /\ Abs(ev'.arg[1]) < Units(MinCrop) \/ Abs(ev'.arg[2]) < Units(MinCrop)
       => UNCHANGED <<pending, image, objects, canvasW, canvasH, zoomLevel, history,
                      historyIndex>>]_vars
C12_Witness ==
    /\ ev.op = "mouseUp" /\ ev.arg # <<>>
    /\ ev.arg[1] <= -Units(MinCrop) /\ ev.arg[2] > 0 /\ ev.arg[2] < Units(MinCrop)
    /\ image # NoImage /\ objects # <<>>

\* C13 as stated: the canvas dimensions after the decode are exactly the
\* normalized width and height of the rect.
C13_ExactExtents ==
    [][ev'.op = "cropDone"
       => \E i \in 1..Len(pending) :
              /\ pending[i].op = "crop" /\ pending' = RemoveAt(pending, i)
              /\ Units(canvasW') = pending[i].w /\ Units(canvasH') = pending[i].h]_vars

\* C13: crop(rect) with both normalized extents at least 10 pixels starts the
\* decode of the extracted region; when it completes the live image is that
\* region, the object list is empty, the canvas has the whole pixels of the
\* normalized width and height, the zoom is re-fitted, and one entry with
\* the new image, those dimensions and no objects follows the entries up to
\* the cursor.
C13_CropCompletes ==
    [][/\ /\ ev'.op = "mouseUp" /\ ev'.arg # <<>>
          /\ Abs(ev'.arg[1]) >= Units(MinCrop) /\ Abs(ev'.arg[2]) >= Units(MinCrop)
          => /\ Len(pending') = Len(pending) + 1
             /\ pending'[Len(pending')].op = "crop"
             /\ pending'[Len(pending')].w = Abs(ev'.arg[1])
             /\ pending'[Len(pending')].h = Abs(ev'.arg[2])
             /\ pending'[Len(pending')].src.w = WholePixels(Abs(ev'.arg[1]))
             /\ pending'[Len(pending')].src.h = WholePixels(Abs(ev'.arg[2]))
       /\ ev'.op = "cropDone"
          => \E i \in 1..Len(pending) :
                 /\ pending[i].op = "crop" /\ pending' = RemoveAt(pending, i)
                 /\ image' = pending[i].src
                 /\ objects' = <<>>
                 /\ canvasW' = WholePixels(pending[i].w)
                 /\ canvasH' = WholePixels(pending[i].h)
                 /\ zoomLevel' = ClampZoom(FitZoom(canvasW', canvasH'))
                 /\ historyIndex' = historyIndex + 1
                 /\ history' = Append(SubSeq(history, 1, historyIndex + 1),
                                      [objects |-> <<>>, imageSrc |-> image',
                                       canvasWidth |-> canvasW',
                                       canvasHeight |-> canvasH'])]_vars
C13_Witness ==
    /\ ev.op = "cropDone"
    /\ historyIndex = 2 /\ history[2].objects # <<>>
    /\ Entry = [objects |-> <<>>, imageSrc |-> image, canvasWidth |-> MinCrop,
                canvasHeight |-> MinCrop]

\* C14: when the decode of a flip completes, the live image is the new
\* image, the object list is empty, the canvas dimensions are untouched, and
\* one entry with the new image, those dimensions and no objects follows the
\* entries up to the cursor.
C14_FlipCompletes ==
    [][ev'.op = "flipDone"
       => \E i \in 1..Len(pending) :
              /\ pending[i].op = "flip" /\ pending' = RemoveAt(pending, i)
              /\ image' = pending[i].src /\ image' # image
              /\ objects' = <<>>
              /\ canvasW' = canvasW /\ canvasH' = canvasH
              /\ historyIndex' = historyIndex + 1
              /\ history' = Append(SubSeq(history, 1, historyIndex + 1),
                                   [objects |-> <<>>, imageSrc |-> image',
                                    canvasWidth |-> canvasW, canvasHeight |-> canvasH])]_vars
C14_Witness ==
    /\ ev.op = "flipDone"
    /\ historyIndex = 2 /\ history[2].objects # <<>> /\ Len(history[2].objects) = 1
    /\ objects = <<>> /\ image = Entry.imageSrc /\ canvasW = history[2].canvasWidth

\* C15: when the decode of a rotate completes, the canvas width and height
\* are the height and width the canvas had when rotate was called, the
\* object list is empty, one entry follows the entries up to the cursor, and
\* the zoom level is the level in effect immediately before the completion.
C15_RotateCompletes ==
    [][/\ ev'.op = "rotate"
          => /\ Len(pending') = Len(pending) + 1
             /\ pending'[Len(pending')].op = "rotate"
             /\ pending'[Len(pending')].w = canvasH
             /\ pending'[Len(pending')].h = canvasW
       /\ ev'.op = "rotateDone"
          => \E i \in 1..Len(pending) :
                 /\ pending[i].op = "rotate" /\ pending' = RemoveAt(pending, i)
                 /\ canvasW' = pending[i].w /\ canvasH' = pending[i].h
                 /\ objects' = <<>>
                 /\ historyIndex' = historyIndex + 1
                 /\ history' = Append(SubSeq(history, 1, historyIndex + 1),
                                      [objects |-> <<>>, imageSrc |-> image',
                                       canvasWidth |-> canvasW',
                                       canvasHeight |-> canvasH'])
                 /\ zoomLevel' = zoomLevel]_vars

\* C16: the zoom level is within [0.1, 5] after every step; setZoom(x) sets
\* it to x brought into that range, zoomIn to min(5, level + 0.25), zoomOut
\* to max(0.1, level - 0.25) and resetZoom to 1; setZoom(10) gives 5 and
\* setZoom(0.001) gives 0.1.
C16_ZoomRange ==
    [][/\ AtMost(MinZoom, zoomLevel') /\ AtMost(zoomLevel', MaxZoom)
       /\ ev'.op = "setZoom"
          => LET x == ev'.arg[1]
             IN  /\ zoomLevel' = IF Below(x, Level(1, 10)) THEN Level(1, 10)
                                 ELSE IF Below(Level(5, 1), x) THEN Level(5, 1) ELSE x
                 /\ x = Level(10, 1) => zoomLevel' = Level(5, 1)
                 /\ x = Level(1, 1000) => zoomLevel' = Level(1, 10)
       /\ ev'.op = "zoomIn"
          => zoomLevel' = MinLevel(Level(5, 1), Plus(zoomLevel, Level(1, 4)))
       /\ ev'.op = "zoomOut"
          => zoomLevel' = MaxLevel(Level(1, 10), Minus(zoomLevel, Level(1, 4)))
       /\ ev'.op = "resetZoom" => zoomLevel' = Level(1, 1)]_vars
\* the third zoomIn in a row from level 1 has given 1.75
C16_Witness ==
    /\ ev.op = "zoomIn" /\ zoomLevel = Level(7, 4)
    /\ onZoomChange = [calls |-> 3, level |-> Level(7, 4)]

\* C17: a step that changes the zoom level invokes onZoomChange once, with
\* the new level; a step that leaves the level as it is does not invoke it.
\* setZoom(x) changes the level exactly when x brought into [0.1, 5] differs
\* from the current level.
C17_CallbackOnChange ==
    [][/\ zoomLevel' # zoomLevel
          => onZoomChange' = [calls |-> onZoomChange.calls + 1, level |-> zoomLevel']
       /\ zoomLevel' = zoomLevel => onZoomChange' = onZoomChange
       /\ ev'.op = "setZoom"
          => LET x == ev'.arg[1]
                 target == IF Below(x, MinZoom) THEN MinZoom
                           ELSE IF Below(MaxZoom, x) THEN MaxZoom ELSE x
             IN  (target # zoomLevel) <=> (onZoomChange'.calls = onZoomChange.calls + 1)]_vars
\* the re-fit of a load has invoked the callback, for the first time
C17_Witness ==
    /\ ev.op = "loadDone" /\ zoomLevel # DefaultZoom
    /\ onZoomChange = [calls |-> 1, level |-> zoomLevel]

\* C18 as stated: after zoomToFit() the level L is at most 1, canvas.width * L
\* and canvas.height * L are within the container's width and height, and L
\* is the largest such level: it is 1 or makes one of the two products equal
\* to the container's extent.
C18_FitIsLargest ==
    [][ev'.op = "zoomToFit"
       => LET L == zoomLevel'
              cw == IF container.w # 0 THEN container.w ELSE ContainerW
              ch == IF container.h # 0 THEN container.h ELSE ContainerH
          IN  /\ AtMost(L, Level(1, 1))
              /\ canvasW * L.n <= cw * L.d
              /\ canvasH * L.n <= ch * L.d
              /\ \/ L = Level(1, 1)
                 \/ canvasW * L.n = cw * L.d
                 \/ canvasH * L.n = ch * L.d]_vars

\* C18: after zoomToFit() on a canvas at most ten times as wide and as high
\* as the container, the level L is at most 1, canvas.width * L and
\* canvas.height * L are within the container's width and height, and L is
\* the largest such level; on a larger canvas L is the lower limit 0.1.
C18_FitWithinLimits ==
    [][ev'.op = "zoomToFit"
       => LET L == zoomLevel'
              cw == IF container.w # 0 THEN container.w ELSE ContainerW
              ch == IF container.h # 0 THEN container.h ELSE ContainerH
          IN  IF canvasW <= 10 * cw /\ canvasH <= 10 * ch
              THEN /\ AtMost(L, Level(1, 1))
                   /\ canvasW * L.n <= cw * L.d
                   /\ canvasH * L.n <= ch * L.d
                   /\ \/ L = Level(1, 1)
                      \/ canvasW * L.n = cw * L.d
                      \/ canvasH * L.n = ch * L.d
              ELSE L = Level(1, 10)]_vars
\* zoomToFit has brought the level back from 5 to the fit of a 1600 x 600
\* image in a 400 x 300 container
C18_Witness ==
    /\ ev.op = "zoomToFit" /\ container = [w |-> 400, h |-> 300]
    /\ canvasW = 1600 /\ zoomLevel = Level(1, 4)
    /\ onZoomChange.calls = 3

\* C19: exportWithTranslations(lang) returns null exactly when no translation
\* map is set for lang and a data URL otherwise; in both cases the live object
\* list after the call is the list before it, and the history and the cursor
\* are unchanged.
C19_ExportWithTranslations ==
    [][ev'.op = "exportWithTranslations" =>
           /\ (ev'.arg[2] = Null) <=> (ev'.arg[1] \notin DOMAIN translations)
           /\ (ev'.arg[2] # Null) => (ev'.arg[2].kind = "data")
           /\ objects' = objects
           /\ history' = history
           /\ historyIndex' = historyIndex]_vars

\* C20: exportAllVersions() returns a mapping whose keys are 'original' and the
\* language codes that have translations set, whose value at 'original' is the
\* plain export and whose value at each language code is the export with that
\* language's translations; with no translations set its only key is
\* 'original'.
C20_ExportAllVersions ==
    [][ev'.op = "exportAllVersions" =>
           LET result == ev'.arg[1]
           IN  /\ result # Thrown
               /\ DOMAIN result = {"original"} \cup DOMAIN translations
               /\ result["original"] = Rendered(objects)
               /\ \A lang \in DOMAIN translations :
                      result[lang] = Rendered(ApplyTranslations(objects, translations[lang]))]_vars


C22_IdentifierKept ==
    [][Len(objects') = Len(objects) =>
           \A i \in 1..Len(objects) :
               (objects[i].type = "text" /\ objects[i].textId # NoId)
                   => AssignIds(objects', 0)[i].textId = objects[i].textId]_vars

\* C23: the identifiers getTextAnnotations() returns are unique: any two
\* distinct text objects of the live list are reported with different ids,
\* also when they lie at one position and got their ids in different calls.
C23_IdentifiersUnique ==
    LET reported == AssignIds(objects, 0)
    IN  \A i, j \in 1..Len(reported) :
            (i < j /\ reported[i].type = "text" /\ reported[j].type = "text")
                => reported[i].textId # reported[j].textId


\* C24: only valid objects are ever committed: every object recorded in a
\* history entry, and every object of the live list while no inline text edit
\* is active, is valid (a freehand stroke has at least 2 points, a text has
\* non-empty trimmed content, any other shape has |w| > 2 or |h| > 2).
C24_OnlyValidObjects ==
    LET Valid(o) ==
            IF o.type = "pencil" THEN Len(o.points) >= 2
            ELSE IF o.type = "text" THEN Trim(o.text) # <<>>
            ELSE Abs(o.w) > Units(MinExtent) \/ Abs(o.h) > Units(MinExtent)
    IN  /\ \A e \in 1..Len(history) :
              \A i \in 1..Len(history[e].objects) : Valid(history[e].objects[i])
        /\ ~isEditingText => \A i \in 1..Len(objects) : Valid(objects[i])


\* C25: the cursor c and the history length n satisfy -1 <= c <= n - 1, with
\* c = -1 exactly when the history is empty; canUndo() returns exactly c > 0
\* and canRedo() exactly c < n - 1, and neither call changes any state.
C25_CursorInRange ==
    /\ [](/\ -1 <= historyIndex
          /\ historyIndex <= Len(history) - 1
          /\ (historyIndex = -1) <=> (history = <<>>))
    /\ [][/\ ev'.op = "canUndo" => ev'.arg = <<historyIndex > 0>>
          /\ ev'.op = "canRedo" => ev'.arg = <<historyIndex < Len(history) - 1>>
          /\ ev'.op \in {"canUndo", "canRedo"} =>
                UNCHANGED <<editorVars, toolVars, gestureVars, zoomLevel, onZoomChange, display,
                            pending, overlays, genCount, taint>>]_vars
\* canUndo() and canRedo() would both return true: the cursor is strictly
\* inside the history, and canUndo() has just said so
C25_Witness ==
    /\ ev.op = "canUndo"
    /\ ev.arg = <<TRUE>>
    /\ historyIndex < Len(history) - 1


\* C26: with a crop aspect ratio W:H set (W, H positive), a crop drag with raw
\* deltas (dx, dy), not both zero, leaves the active crop rectangle with
\* |w'| * H = |h'| * W, the sign of w' that of dx where dx # 0 and the sign of
\* h' that of dy where dy # 0; for 16:9 and (200, 50) it is (200, 112.5).
\* (Over the deltas and ratios whose constrained extent is a whole number of
\* sub-pixel units.)
C26_CropKeepsRatio ==
    [][LET dx == ev'.arg[1]
           dy == ev'.arg[2]
           W == cropAspectRatio.width
           H == cropAspectRatio.height
           w == activeObject'.w
           h == activeObject'.h
           Sign(n) == IF n < 0 THEN -1 ELSE IF n > 0 THEN 1 ELSE 0
       IN  (/\ ev'.op = "mouseMove"
            /\ isDrawing /\ activeObject # NoObject /\ activeObject.type = "crop"
            /\ W > 0 /\ H > 0
            /\ dx # 0 \/ dy # 0
            /\ IF Abs(dx) * H > Abs(dy) * W
               THEN (Abs(dx) * H) % W = 0 ELSE (Abs(dy) * W) % H = 0)
           => /\ Abs(w) * H = Abs(h) * W
              /\ dx # 0 => Sign(w) = Sign(dx)
              /\ dy # 0 => Sign(h) = Sign(dy)
              /\ (W = 16 /\ H = 9 /\ dx = Units(200) /\ dy = Units(50))
                    => (w = Units(200) /\ 2 * h = Units(225))]_vars
\* the 16:9 drag by (200, 50) has been made
C26_Witness ==
    /\ ev.op = "mouseMove"
    /\ ev.arg = <<Units(200), Units(50)>>
    /\ cropAspectRatio = [width |-> 16, height |-> 9]
    /\ activeObject # NoObject /\ activeObject.type = "crop"
    /\ 2 * activeObject.h = Units(225)


\* C27: the selected object is either none or an element of the live object
\* list: it never refers to an object that was deleted, cleared by a crop,
\* flip, rotate or loadImage, or replaced by an undo/redo restore (so that
\* setColor and Delete never act on an object that is not in the list).
C27_SelectionInList == selectedObject \in 0..Len(objects)


\* C28: object lookup at a point p returns the object with the greatest
\* insertion index among those whose containment test holds at p (freehand:
\* some point at distance < 10; arrow: distance to the segment < 10; text:
\* inside the text box expanded by 10; other shapes: inside the normalized box
\* expanded by 10, edges included), and none when no test holds; a select-tool
\* pointer-down sets the selection to exactly that result.
C28_TopmostHit ==
    [][(ev'.op = "mouseDown" /\ currentTool = "select") =>
           LET p == [x |-> ev'.arg[1], y |-> ev'.arg[2]]
               r == Units(10)
               Contains(o) ==
                   IF o.type = "pencil"
                   THEN \E n \in 1..Len(o.points) :
                            (o.points[n].x - p.x) * (o.points[n].x - p.x)
                              + (o.points[n].y - p.y) * (o.points[n].y - p.y) < r * r
                   ELSE IF o.type = "arrow"
                   THEN distToSegmentBelow(p, [x |-> o.x, y |-> o.y],
                                           [x |-> o.x + o.w, y |-> o.y + o.h], r)
                   ELSE IF o.type = "text"
                   THEN LET b == getTextBounds(o)
                        IN  /\ b.x - r <= p.x /\ p.x <= b.x + b.width + r
                            /\ b.y - r <= p.y /\ 5 * p.y <= 5 * (b.y + r) + b.height5
                   ELSE /\ Min2(o.x, o.x + o.w) - r <= p.x
                        /\ p.x <= Max2(o.x, o.x + o.w) + r
                        /\ Min2(o.y, o.y + o.h) - r <= p.y
                        /\ p.y <= Max2(o.y, o.y + o.h) + r
               found == {i \in 1..Len(objects) : Contains(objects[i])}
               topmost == IF found = {} THEN 0
                          ELSE CHOOSE i \in found : \A j \in found : j <= i
           IN  /\ findObjectAt(objects, p) = topmost
               /\ selectedObject' = topmost]_vars
\* a press where two objects contain the point has selected the later one
C28_Witness ==
    /\ ev.op = "mouseDown"
    /\ Len(objects) = 2
    /\ isPointInObject([x |-> ev.arg[1], y |-> ev.arg[2]], objects[1])
    /\ isPointInObject([x |-> ev.arg[1], y |-> ev.arg[2]], objects[2])
    /\ objects[1] # objects[2]
    /\ selectedObject = 2

\* C29: a select-tool pointer-down at a point p strictly outside the
\* tolerance-expanded bounding box of every object (the normalized box of a
\* rectangle, circle, arrow or highlight, the min/max box of a freehand
\* stroke's points, the text box of a text, each expanded by 10) selects
\* nothing: the selection becomes none and the press starts no drag.
C29_OutsideSelectsNothing ==
    [][LET p == [x |-> ev'.arg[1], y |-> ev'.arg[2]]
           r == Units(10)
           Box(o) ==
               IF o.type = "pencil"
               THEN LET b == getPencilBounds(o)
                    IN  [x |-> 5 * b.x, y |-> 5 * b.y, w |-> 5 * b.w, h |-> 5 * b.h]
               ELSE IF o.type = "text"
               THEN LET b == getTextBounds(o)
                    IN  [x |-> 5 * b.x, y |-> 5 * b.y, w |-> 5 * b.width, h |-> b.height5]
               ELSE [x |-> 5 * Min2(o.x, o.x + o.w), y |-> 5 * Min2(o.y, o.y + o.h),
                     w |-> 5 * Abs(o.w), h |-> 5 * Abs(o.h)]
           Outside(o) ==
               \/ 5 * p.x < Box(o).x - 5 * r \/ 5 * p.x > Box(o).x + Box(o).w + 5 * r
               \/ 5 * p.y < Box(o).y - 5 * r \/ 5 * p.y > Box(o).y + Box(o).h + 5 * r
       IN  (/\ ev'.op = "mouseDown" /\ currentTool = "select"
            /\ \A i \in 1..Len(objects) : Outside(objects[i]))
           => /\ selectedObject' = 0
              /\ ~(isDragging' /\ ~isDragging)]_vars
\* a press at (23, 23), outside the expanded boxes of the two objects there
\* are, has left nothing selected
C29_Witness ==
    /\ ev.op = "mouseDown"
    /\ ev.arg = <<Units(23), Units(23)>>
    /\ Len(objects) = 2
    /\ selectedObject = 0
    /\ ~isDragging

\* C30 as stated: a select-tool pointer-down at a point within distance < 10
\* of one of the points of a freehand stroke s selects s, whatever else the
\* object list holds.
C30_StrokeSelected ==
    [][(ev'.op = "mouseDown" /\ currentTool = "select") =>
           \A i \in 1..Len(objects) :
               (/\ objects[i].type = "pencil"
                /\ \E n \in 1..Len(objects[i].points) :
                       (objects[i].points[n].x - ev'.arg[1]) * (objects[i].points[n].x - ev'.arg[1])
                         + (objects[i].points[n].y - ev'.arg[2]) * (objects[i].points[n].y - ev'.arg[2])
                       < Units(10) * Units(10))
               => selectedObject' = i]_vars
\* C30: such a pointer-down selects s, unless an object inserted after s
\* contains the point as well, in which case the newest such object is
\* selected.
C30_StrokeOrNewerSelected ==
    [][(ev'.op = "mouseDown" /\ currentTool = "select") =>
           \A i \in 1..Len(objects) :
               (/\ objects[i].type = "pencil"
                /\ \E n \in 1..Len(objects[i].points) :
                       (objects[i].points[n].x - ev'.arg[1]) * (objects[i].points[n].x - ev'.arg[1])
                         + (objects[i].points[n].y - ev'.arg[2]) * (objects[i].points[n].y - ev'.arg[2])
                       < Units(10) * Units(10))
               => IF \E j \in (i + 1)..Len(objects) :
                         isPointInObject([x |-> ev'.arg[1], y |-> ev'.arg[2]], objects[j])
                  THEN /\ selectedObject' > i
                       /\ isPointInObject([x |-> ev'.arg[1], y |-> ev'.arg[2]],
                                          objects[selectedObject'])
                       /\ \A j \in (selectedObject' + 1)..Len(objects) :
                             ~isPointInObject([x |-> ev'.arg[1], y |-> ev'.arg[2]],
                                              objects[j])
                  ELSE selectedObject' = i]_vars
\* a press at (6, 7), less than 10 from the stroke's point (0, 0), has
\* selected the stroke that lies under a text drawn after it
C30_Witness ==
    /\ ev.op = "mouseDown"
    /\ ev.arg = <<Units(6), Units(7)>>
    /\ Len(objects) = 2
    /\ objects[1].type = "pencil"
    /\ objects[2].type = "text"
    /\ selectedObject = 1
    /\ isDragging


\* C31: Delete or Backspace pressed while an object is selected and no
\* inline text edit is active removes exactly that object from the object
\* list (the others kept, in order), clears the selection and commits
\* exactly one history entry; pressed while an inline text edit is active, or
\* while nothing is selected, it changes neither the list nor the history.
C31_DeleteRemovesSelected ==
    [][ev'.op = "keyDelete" =>
           IF selectedObject # 0 /\ ~isEditingText
           THEN /\ Len(objects') = Cardinality({i \in 1..Len(objects) : i # selectedObject})
                /\ \A i \in 1..Len(objects') :
                       objects'[i] = objects[IF i < selectedObject THEN i ELSE i + 1]
                /\ selectedObject' = 0
                /\ historyIndex' = historyIndex + 1
                /\ Len(history') = historyIndex + 2
                /\ SubSeq(history', 1, historyIndex + 1) = SubSeq(history, 1, historyIndex + 1)
                /\ history'[historyIndex' + 1].objects = DeepCopy(objects')
           ELSE UNCHANGED <<objects, history, historyIndex>>]_vars
\* the first of two texts was deleted and the second, dragged to (12, 12)
\* before, is what the list holds
C31_Witness ==
    /\ ev.op = "keyDelete"
    /\ historyIndex > 0
    /\ Len(history[historyIndex].objects) = 2
    /\ Len(objects) = 1
    /\ objects[1].x = Units(12)
    /\ history[historyIndex].objects[1].x = 0
    /\ history[historyIndex].objects[2].x = Units(12)
    /\ selectedObject = 0
\* a Delete pressed during an inline text edit has left the list as it was
C31_WitnessEditing ==
    /\ ev.op = "keyDelete"
    /\ isEditingText
    /\ selectedObject > 0
    /\ Len(objects) > 0


\* C32: confirming an inline text edit (Enter without Shift, or blur) adds
\* no history entry when the object's text after the confirm equals its text
\* before the edit began, which includes an entered value that is blank or
\* that differs from the original by surrounding whitespace only.
C32_CommitOnlyIfChanged ==
    [][(/\ ev'.op = "confirmEdit"
        /\ ~overlays[ev'.arg[1]].finished
        /\ overlays[ev'.arg[1]].obj \in 1..Len(objects)
        /\ objects'[overlays[ev'.arg[1]].obj].text = overlays[ev'.arg[1]].originalText)
       => UNCHANGED <<history, historyIndex>>]_vars


\* C33: every exit from an inline text edit (Enter without Shift, blur or
\* Escape, in any order and however many of them arrive) leaves the edited
\* object with non-empty text, the trimmed new value or the original text,
\* and the editing flag cleared; the Escape path adds no history entry.
C33_EditExitsClean ==
    [][(ev'.op \in {"confirmEdit", "escapeText"} /\ overlays[ev'.arg[1]].kind = "edit") =>
           LET t == overlays[ev'.arg[1]]
           IN  /\ ~isEditingText'
               /\ t.obj \in 1..Len(objects)
                    => /\ objects'[t.obj].text # <<>>
                       /\ objects'[t.obj].text \in {Trim(t.value), t.originalText}
               /\ ev'.op = "escapeText" => UNCHANGED <<history, historyIndex>>]_vars


\* C34: a text-tool overlay session ends in exactly one of two ways: a
\* confirm (Enter without Shift, or blur) with non-blank content appends
\* exactly one text object and one history entry; a cancel (Escape, or Enter
\* or blur with blank content) changes neither the object list nor the
\* history.  Whatever reaches the textarea after that changes neither: no
\* session commits more than once.
C34_OneOutcomePerSession ==
    [][(ev'.op \in {"confirmText", "escapeText"} /\ overlays[ev'.arg[1]].kind = "new") =>
           LET t == overlays[ev'.arg[1]]
               blank == \A n \in 1..Len(t.value) : t.value[n] = " "
           IN  IF ev'.op = "confirmText" /\ ~t.finished /\ ~blank
               THEN /\ Len(objects') = Len(objects) + 1
                    /\ SubSeq(objects', 1, Len(objects)) = objects
                    /\ objects'[Len(objects')].type = "text"
                    /\ objects'[Len(objects')].text = t.value
                    /\ objects'[Len(objects')].x = t.pos.x
                    /\ objects'[Len(objects')].y = t.pos.y
                    /\ historyIndex' = historyIndex + 1
                    /\ Len(history') = historyIndex + 2
                    /\ SubSeq(history', 1, historyIndex + 1)
                         = SubSeq(history, 1, historyIndex + 1)
                    /\ overlays'[ev'.arg[1]].finished
               ELSE UNCHANGED <<objects, history, historyIndex>>]_vars
\* a confirm has reached the textarea of a session that had already
\* committed its text
C34_Witness ==
    /\ ev.op = "confirmText"
    /\ ~ev.committed
    /\ Len(overlays) = 1
    /\ overlays[1].kind = "new"
    /\ overlays[1].finished
    /\ overlays[1].value = <<"a", " ">>
    /\ Len(objects) = 1
    /\ objects[1].text = <<"a", " ">>
    /\ historyIndex = 0


\* C35: Escape pressed while a drawing-tool drag is in progress (pointer
\* down with pencil, rect, circle, arrow, highlight or crop, not yet
\* released) aborts the drawing: the active object is discarded and the
\* drawing flag cleared, and neither the key press nor the pointer-up that
\* follows adds an object, starts a crop or commits a history entry.
C35_EscapeAbortsDrawing ==
    [][/\ (ev'.op = "keyEscape" /\ isDrawing /\ activeObject # NoObject)
          => /\ activeObject' = NoObject
             /\ ~isDrawing'
             /\ UNCHANGED <<objects, history, historyIndex, pending>>
       /\ (ev.op = "keyEscape" /\ ev'.op = "mouseUp" /\ currentTool # "select")
          => UNCHANGED <<objects, history, historyIndex, pending>>]_vars

\* C36: no crop-kind object is ever in the live object list or in a history
\* entry: at pointer-up an active object of kind crop is discarded, never
\* appended, whether or not the crop is carried out, and also when the tool
\* was switched between pointer-down and pointer-up.
C36_NoCropObject ==
    /\ [](/\ \A i \in 1..Len(objects) : objects[i].type # "crop"
          /\ \A n \in 1..Len(history) :
                \A i \in 1..Len(history[n].objects) : history[n].objects[i].type # "crop")
    /\ [][(/\ ev'.op = "mouseUp" /\ currentTool # "select" /\ isDrawing
            /\ activeObject # NoObject /\ activeObject.type = "crop")
           => /\ objects' = objects
              /\ activeObject' = NoObject]_vars
\* a crop rectangle was released after the tool had been switched to rect,
\* and the crop was started
C36_Witness ==
    /\ ev.op = "mouseUp"
    /\ currentTool = "rect"
    /\ activeObject = NoObject
    /\ ~isDrawing
    /\ Len(pending) = 1
    /\ pending[1].op = "crop"
    /\ objects = <<>>


\* C37: whenever no pointer gesture, text overlay or image decode is in
\* progress and the history is non-empty, the live object list equals, object
\* for object in kind, geometry, colour and text, the object list of the
\* history entry at the cursor.
C37_LiveListIsEntry ==
    (Quiescent /\ historyIndex >= 0) =>
        /\ Len(objects) = Len(Entry.objects)
        /\ \A i \in 1..Len(objects) :
              LET o == objects[i]
                  e == Entry.objects[i]
              IN  /\ o.type = e.type /\ o.color = e.color /\ o.text = e.text
                  /\ o.x = e.x /\ o.y = e.y /\ o.w = e.w /\ o.h = e.h
                  /\ o.points = e.points


\* C38: under every interleaving of loadImage, crop, flip, rotate, undo and
\* redo with the completions and failures of the decodes they start,
\* whenever no decode is pending and an image is loaded the live image's
\* pixel dimensions equal the canvas's, and every history entry's stored
\* canvas dimensions are the dimensions of the image the entry records.
C38_ImageFitsCanvas ==
    /\ (pending = <<>> /\ image # NoImage) => (image.w = canvasW /\ image.h = canvasH)
    /\ \A n \in 1..Len(history) :
          history[n].imageSrc # NoImage
            => /\ history[n].canvasWidth = history[n].imageSrc.w
               /\ history[n].canvasHeight = history[n].imageSrc.h


\* C39: after every completed operation that changes the zoom level or the
\* canvas pixel dimensions (setZoom, zoomIn, zoomOut, zoomToFit, resetZoom,
\* loadImage, crop, rotate, an undo / redo restore) the canvas's displayed
\* size is floor(canvas.width * zoom) by floor(canvas.height * zoom): it is
\* never left at the value computed for earlier dimensions or an earlier
\* level.
C39_DisplayedSizeCurrent ==
    LET displayed == IF display = NoDisplay THEN [w |-> canvasW, h |-> canvasH]
                     ELSE display
    IN  /\ displayed.w = (canvasW * zoomLevel.n) \div zoomLevel.d
        /\ displayed.h = (canvasH * zoomLevel.n) \div zoomLevel.d


\* C40: once a pointer-up has been processed, and until the next
\* pointer-down, no gesture state remains: there is no active object, the
\* drawing flag is false and the dragging flag is false, also when setTool,
\* undo or redo was called between the pointer-down and the pointer-up.
C40_NoGestureStateAfterUp ==
    [][ev'.op = "mouseUp" =>
           /\ activeObject' = NoObject
           /\ ~isDrawing'
           /\ ~isDragging']_vars

====
